---- MODULE Spec2Model ----
(***************************************************************************)
(* A model of volctl's PulseAudio wrapper (src/volctl/lib/pa_wrapper.py):  *)
(* the PulseAudioManager maps and callbacks, the Sink / SinkInput / Client *)
(* objects, the volume commands, the peak computation of the capture read  *)
(* callback, and the PulseAudio connection with its subscription dispatch. *)
(***************************************************************************)
EXTENDS Integers, Sequences, FiniteSets, TLC

(***************************************************************************)
(* Bounds of the model.                                                    *)
(***************************************************************************)
MaxSinkIdx == 2
MaxChannels == 2
MaxSinkInputIdx == 1
MaxClientIdx == 1
MaxBlockLen == 3
MaxSrvChanges == 3
MaxStreams == 3
MaxInFlight == 2

\* vol = pa_volume_t * 32: the slots of a pa_cvolume
CVolumeSlots == 32

(***************************************************************************)
(* Python values.  The ctypes binding delivers char* fields as bytes, and  *)
(* the literals of the source are str: a value carries its type, so that   *)
(* == between a bytes and a str is False as it is in Python 3.             *)
(***************************************************************************)
None == <<"NoneType", "None">>
Bytes(s) == <<"bytes", s>>
Str(s) == <<"str", s>>
\* bytes.decode("utf-8")
decode(v) == <<"str", v[2]>>
\* a == b
PyEq(a, b) == a = b
\* dict.get(key) / dict.get(key, default)
DictGet(d, k, default) == IF k \in DOMAIN d THEN d[k] ELSE default
\* del d[k]
DictDel(d, k) == [x \in DOMAIN d \ {k} |-> d[x]]
\* d[k] = v
DictSet(d, k, v) == [x \in DOMAIN d \cup {k} |-> IF x = k THEN v ELSE d[x]]
EmptyDict == [x \in {} |-> 0]

(***************************************************************************)
(* Input domains.                                                          *)
(***************************************************************************)
SinkIdx == 1..MaxSinkIdx
SinkNames == {Bytes("a"), Bytes("b")}
Descriptions == {Bytes("Speakers")}
Volumes == {50, 70}
Channels == 1..MaxChannels

\* the pa_cvolume of a payload: a channel count and one volume per channel
PayloadCVolumes ==
    UNION { { [channels |-> n, values |-> vs] : vs \in [1..n -> Volumes] } : n \in Channels }

\* pa_sink_info, the fields the wrapper reads
SinkStructs ==
    [name : SinkNames, description : Descriptions, volume : PayloadCVolumes, mute : {0, 1}]

SinkInputIdx == 1..MaxSinkInputIdx
ClientIdx == 1..MaxClientIdx
\* pa_sink_input_info.name: the feedback sound of the desktop, and a player's stream
SinkInputNames == {Bytes("audio-volume-change"), Bytes("Playback")}
\* pa_sink_input_info.driver; NULL is None
Drivers == {Bytes("protocol-native.c"), Bytes("PipeWire"), Bytes("module-loopback.c"), None}

\* pa_sink_input_info, the fields the wrapper reads
SinkInputStructs ==
    [name : SinkInputNames, driver : Drivers, volume : PayloadCVolumes, mute : {0, 1},
     sink : SinkIdx, client : ClientIdx]

\* the property lists, as _dict_from_proplist returns them
SinkInputProps ==
    { EmptyDict,
      ("application.name" :> Bytes("Player") @@ "media.name" :> Bytes("Song")),
      ("application.name" :> Bytes("Player") @@ "application.icon_name" :> Bytes("player")),
      ("media.icon_name" :> Bytes("song")) }

\* pa_client_info, the fields the wrapper reads
ClientStructs == [name : {Bytes("player")}]
ClientProps == { EmptyDict, ("application.icon_name" :> Bytes("player")) }

(***************************************************************************)
(* State.                                                                  *)
(***************************************************************************)
VARIABLES
    _pa_clients,         \* PulseAudioManager._pa_clients: index -> Client
    _pa_sinks,           \* PulseAudioManager._pa_sinks: insertion-ordered index -> Sink
    _pa_sinks_by_name,   \* PulseAudioManager._pa_sinks_by_name: name -> Sink
    _default_sink,       \* PulseAudioManager._default_sink
    _pa_sink_inputs,     \* PulseAudioManager._pa_sink_inputs: index -> SinkInput
    sink_objs,           \* the Sink objects the maps (and the caller) refer to
    idle,                \* the calls queued by GObject.idle_add
    requests,            \* the operations handed to the server, oldest first
    last,                \* the most recent call
    err,                 \* the exception the most recent call ended in
    ret,                 \* what the most recent call returned
    capture,             \* the capture stream of one entity and the block it holds
    ctx_state,           \* the state of the connection's context
    inbox,               \* what the server has sent and the mainloop has not yet run
    srv,                 \* the server: its graph, its default sink, its subscription
    proc,                \* the process: signals to the mainloop, and its exit
    pa_streams           \* the capture streams connected to the server, by identity

mgr_vars == <<_pa_clients, _pa_sinks, _pa_sinks_by_name, _default_sink,
              _pa_sink_inputs, sink_objs>>
call_vars == <<last, err, ret>>
net_vars == <<ctx_state, inbox, srv, proc, pa_streams>>
vars == <<mgr_vars, idle, requests, call_vars, capture, net_vars>>

(***************************************************************************)
(* The insertion-ordered dict _pa_sinks: a sequence of (key, ref) items.   *)
(***************************************************************************)
OKeys(d) == { d[k].key : k \in 1..Len(d) }
OGet(d, key) == (CHOOSE k \in 1..Len(d) : d[k].key = key)
ORef(d, key) == d[OGet(d, key)].ref
\* d[key] = ref for a key not in d: appended
OInsert(d, key, ref) == Append(d, [key |-> key, ref |-> ref])
\* d.pop(key)
OPop(d, key) == [k \in 1..(Len(d) - 1) |-> IF k < OGet(d, key) THEN d[k] ELSE d[k + 1]]

(***************************************************************************)
(* The call record, the deferred calls and the outbound operations.        *)
(***************************************************************************)
\* the call just made: its name, its index argument, the name and driver fields of
\* its payload ("" where the call has none) and its volume argument (0 where none)
Call(op, index, name, driver, volume) ==
    [op |-> op, index |-> index, name |-> name, driver |-> driver, volume |-> volume]

\* GObject.idle_add(callback, *args); index, volume, mute are 0, 0, FALSE for a
\* callback that takes none
Note(cb, index, volume, mute) == [cb |-> cb, index |-> index, volume |-> volume, mute |-> mute]

NoneRef == 0

(***************************************************************************)
(* cvolume_from_volume                                                     *)
(***************************************************************************)
cvolume_from_volume_short(volume, channels) ==
    [channels |-> channels,
     values |-> [i \in 1..CVolumeSlots |-> IF i < channels THEN volume ELSE 0]]

cvolume_from_volume(volume, channels) ==
    [channels |-> channels,
     values |-> [i \in 1..CVolumeSlots |-> IF i <= channels THEN volume ELSE 0]]

(***************************************************************************)
(* Sink objects.                                                           *)
(***************************************************************************)
\* self._stream = None: no capture stream
NoStream == 0

\* AbstractMonitorableSink.__init__
AbstractMonitorableSink_init(idx) ==
    [idx |-> idx, volume |-> 0, channels |-> 0, mute |-> FALSE,
     icon_name |-> None, name |-> Str(""), sink_name |-> None,
     _stream |-> NoStream]

\* AbstractMonitorableSink.update
AbstractMonitorableSink_update(self, struct) ==
    [self EXCEPT !.volume = struct.volume.values[1],
                 !.channels = struct.volume.channels,
                 !.mute = (struct.mute # 0)]

\* is_main_sink taking an unset marker for any name
is_main_sink_unset_too(sink_name) ==
    _default_sink = None \/ PyEq(sink_name, _default_sink)

\* PulseAudioManager.is_main_sink
is_main_sink(sink_name) == PyEq(sink_name, _default_sink)

\* Sink.update: the fields
Sink_update(self, struct) ==
    [AbstractMonitorableSink_update(self, struct)
        EXCEPT !.name = decode(struct.description),
               !.sink_name = struct.name,
               !.icon_name = Str("audio-card"),
               !.volume = struct.volume.values[1],
               !.channels = struct.volume.channels,
               !.mute = (struct.mute # 0)]

\* Sink.update telling the scale of the main sink alone
Sink_update_notes_main_only(self) ==
    IF is_main_sink(self.sink_name)
       THEN << Note("update_values", 0, self.volume, self.mute),
               Note("update_sink_scale", self.idx, self.volume, self.mute) >>
       ELSE << >>

\* Sink.update: the deferred calls, on the updated object
Sink_update_notes(self) ==
    (IF is_main_sink(self.sink_name)
        THEN << Note("update_values", 0, self.volume, self.mute) >>
        ELSE << >>)
    \o << Note("update_sink_scale", self.idx, self.volume, self.mute) >>

\* the objects still referred to by a map or by the caller
Live(objs, sinks, byname, r) ==
    LET refs == { sinks[k].ref : k \in 1..Len(sinks) }
                \cup { byname[n] : n \in DOMAIN byname } \cup {r}
    IN  [o \in DOMAIN objs \cap refs |-> objs[o]]

MaxOid == MaxSinkIdx + Cardinality(SinkNames) + 2
\* a new object: the first identity no live object has
NewOid == CHOOSE o \in 1..MaxOid :
              /\ o \notin DOMAIN sink_objs
              /\ \A p \in 1..(o - 1) : p \in DOMAIN sink_objs

(***************************************************************************)
(* PulseAudioManager: the callbacks called by pulseaudio, for sinks.  An   *)
(* exception ends the callback where it is raised; what the callback did   *)
(* before stays done.                                                      *)
(***************************************************************************)
\* the first sight of an index: Sink(...), both maps, slider_count_changed
new_pa_sink_insert(index, struct) ==
    LET oid == NewOid
        sink == Sink_update(AbstractMonitorableSink_init(index), struct)
        sinks == OInsert(_pa_sinks, index, oid)
        byname == DictSet(_pa_sinks_by_name, sink.sink_name, oid)
    IN  /\ _pa_sinks' = sinks
        /\ _pa_sinks_by_name' = byname
        /\ sink_objs' = Live(DictSet(sink_objs, oid, sink), sinks, byname, NoneRef)
        /\ idle' = idle \o Sink_update_notes(sink)
                        \o << Note("slider_count_changed", 0, 0, FALSE) >>
        /\ err' = "none"

\* a known index: update in place, then move the name map's entry
new_pa_sink_update(index, struct) ==
    LET oid == ORef(_pa_sinks, index)
        old_name == sink_objs[oid].sink_name
        sink == Sink_update(sink_objs[oid], struct)
        objs == DictSet(sink_objs, oid, sink)
    IN  /\ _pa_sinks' = _pa_sinks
        /\ idle' = idle \o Sink_update_notes(sink)
        /\ IF old_name \in DOMAIN _pa_sinks_by_name
              THEN LET byname == DictSet(DictDel(_pa_sinks_by_name, old_name),
                                         sink.sink_name, oid)
                   IN  /\ _pa_sinks_by_name' = byname
                       /\ sink_objs' = Live(objs, _pa_sinks, byname, NoneRef)
                       /\ err' = "none"
              ELSE \* del self._pa_sinks_by_name[old_name]
                   /\ _pa_sinks_by_name' = _pa_sinks_by_name
                   /\ sink_objs' = Live(objs, _pa_sinks, _pa_sinks_by_name, NoneRef)
                   /\ err' = "KeyError"

_on_new_pa_sink(index, struct) ==
    /\ IF index \notin OKeys(_pa_sinks)
          THEN new_pa_sink_insert(index, struct)
          ELSE new_pa_sink_update(index, struct)
    /\ last' = Call("_on_new_pa_sink", index, struct.name[2], "", 0)
    /\ ret' = NoneRef
    /\ UNCHANGED <<_pa_clients, _default_sink, _pa_sink_inputs, requests>>

_on_remove_pa_sink(index) ==
    /\ IF index \notin OKeys(_pa_sinks)
          THEN \* self._pa_sinks.pop(index)
               /\ err' = "KeyError"
               /\ UNCHANGED <<_pa_sinks, sink_objs>>
          ELSE \* popped; self._pa_sink_index_by_name is no attribute of the manager
               /\ _pa_sinks' = OPop(_pa_sinks, index)
               /\ sink_objs' = Live(sink_objs, OPop(_pa_sinks, index),
                                    _pa_sinks_by_name, NoneRef)
               /\ err' = "AttributeError"
    /\ last' = Call("_on_remove_pa_sink", index, "", "", 0)
    /\ ret' = NoneRef
    /\ UNCHANGED <<_pa_clients, _pa_sinks_by_name, _default_sink, _pa_sink_inputs,
                   idle, requests>>

_on_default_sink(name) ==
    /\ _default_sink' = name
    /\ last' = Call("_on_default_sink", 0, name[2], "", 0)
    /\ err' = "none"
    /\ ret' = NoneRef
    /\ sink_objs' = Live(sink_objs, _pa_sinks, _pa_sinks_by_name, NoneRef)
    /\ UNCHANGED <<_pa_clients, _pa_sinks, _pa_sinks_by_name, _pa_sink_inputs,
                   idle, requests>>

(***************************************************************************)
(* PulseAudioManager: what the Sink objects and the gui thread call.       *)
(***************************************************************************)
\* an operation handed to the server; cvolume and mute are NoCVolume and 0 where
\* the operation takes none
Request(op, index, cvolume, mute) ==
    [op |-> op, index |-> index, cvolume |-> cvolume, mute |-> mute]
NoCVolume == [channels |-> 0, values |-> [i \in 1..CVolumeSlots |-> 0]]

get_first_sink_lowest ==
    IF Len(_pa_sinks) = 0
       THEN NoneRef
       ELSE ORef(_pa_sinks, CHOOSE i \in OKeys(_pa_sinks) : \A j \in OKeys(_pa_sinks) : i <= j)

\* list(self._pa_sinks.keys())[0], None on IndexError
get_first_sink ==
    IF Len(_pa_sinks) = 0 THEN NoneRef ELSE _pa_sinks[1].ref

\* get_main_sink raises: self._pa_sinks_by_name[self._default_sink]
get_main_sink_raises ==
    _default_sink # None /\ _default_sink \notin DOMAIN _pa_sinks_by_name

\* what get_main_sink returns when it does not raise
get_main_sink_result ==
    IF _default_sink = None THEN get_first_sink ELSE _pa_sinks_by_name[_default_sink]

get_main_sink ==
    /\ IF get_main_sink_raises
          THEN err' = "KeyError" /\ ret' = NoneRef
          ELSE err' = "none" /\ ret' = get_main_sink_result
    /\ sink_objs' = Live(sink_objs, _pa_sinks, _pa_sinks_by_name, ret')
    /\ last' = Call("get_main_sink", 0, "", "", 0)
    /\ UNCHANGED <<_pa_clients, _pa_sinks, _pa_sinks_by_name, _default_sink,
                   _pa_sink_inputs, idle, requests>>

\* Sink.set_volume on the object oid
Sink_set_volume(oid, volume) ==
    LET self == sink_objs[oid]
        cvolume == cvolume_from_volume(volume, self.channels)
    IN  /\ sink_objs' = Live([sink_objs EXCEPT ![oid].volume = volume],
                             _pa_sinks, _pa_sinks_by_name, NoneRef)
        /\ requests' = Append(requests, Request("set_sink_volume", self.idx, cvolume, 0))

\* a set_mute that dispatches and leaves the cached mute as it was
Sink_set_mute_uncached(oid, mute) ==
    LET self == sink_objs[oid]
    IN  /\ sink_objs' = Live(sink_objs, _pa_sinks, _pa_sinks_by_name, NoneRef)
        /\ requests' = Append(requests,
               Request("set_sink_mute", self.idx, NoCVolume, IF mute THEN 1 ELSE 0))

\* Sink.set_mute on the object oid
Sink_set_mute(oid, mute) ==
    LET self == sink_objs[oid]
    IN  /\ sink_objs' = Live([sink_objs EXCEPT ![oid].mute = mute],
                             _pa_sinks, _pa_sinks_by_name, NoneRef)
        /\ requests' = Append(requests,
               Request("set_sink_mute", self.idx, NoCVolume, IF mute THEN 1 ELSE 0))

\* a call that raised before it changed anything
Raises(exc) ==
    /\ err' = exc
    /\ sink_objs' = Live(sink_objs, _pa_sinks, _pa_sinks_by_name, NoneRef)
    /\ UNCHANGED requests

set_main_volume(volume) ==
    /\ IF get_main_sink_raises
          THEN Raises("KeyError")
          ELSE IF get_main_sink_result = NoneRef
                  THEN Raises("AttributeError")
                  ELSE Sink_set_volume(get_main_sink_result, volume) /\ err' = "none"
    /\ last' = Call("set_main_volume", 0, "", "", volume)
    /\ ret' = NoneRef
    /\ UNCHANGED <<_pa_clients, _pa_sinks, _pa_sinks_by_name, _default_sink,
                   _pa_sink_inputs, idle>>

toggle_main_mute ==
    /\ IF get_main_sink_raises
          THEN Raises("KeyError")
          ELSE IF get_main_sink_result = NoneRef
                  THEN Raises("AttributeError")
                  ELSE /\ Sink_set_mute(get_main_sink_result,
                                        ~ sink_objs[get_main_sink_result].mute)
                       /\ err' = "none"
    /\ last' = Call("toggle_main_mute", 0, "", "", 0)
    /\ ret' = NoneRef
    /\ UNCHANGED <<_pa_clients, _pa_sinks, _pa_sinks_by_name, _default_sink,
                   _pa_sink_inputs, idle>>

\* the gui sets the volume of the sink it holds for an index of pa_sinks
sink_set_volume(index, volume) ==
    /\ index \in OKeys(_pa_sinks)
    /\ Sink_set_volume(ORef(_pa_sinks, index), volume)
    /\ last' = Call("Sink.set_volume", index, "", "", volume)
    /\ err' = "none"
    /\ ret' = NoneRef
    /\ UNCHANGED <<_pa_clients, _pa_sinks, _pa_sinks_by_name, _default_sink,
                   _pa_sink_inputs, idle>>

\* the gui sets the mute of the sink it holds for an index of pa_sinks
sink_set_mute(index, mute) ==
    /\ index \in OKeys(_pa_sinks)
    /\ Sink_set_mute(ORef(_pa_sinks, index), mute)
    /\ last' = Call("Sink.set_mute", index, "", "", 0)
    /\ err' = "none"
    /\ ret' = NoneRef
    /\ UNCHANGED <<_pa_clients, _pa_sinks, _pa_sinks_by_name, _default_sink,
                   _pa_sink_inputs, idle>>

(***************************************************************************)
(* SinkInput and Client objects, and the manager's callbacks for them.     *)
(***************************************************************************)
\* SinkInput.update: the fields
SinkInput_update(self, struct, props) ==
    LET app_name == DictGet(props, "application.name", None)
        media_name == DictGet(props, "media.name", None)
        media_icon == DictGet(props, "media.icon_name", None)
        icon == IF media_icon = None
                   THEN DictGet(props, "application.icon_name", None)
                   ELSE media_icon
    IN  [AbstractMonitorableSink_update(self, struct)
            EXCEPT !.sink_idx = struct.sink,
                   !.client = struct.client,
                   !.app_name = IF app_name # None THEN decode(app_name) ELSE None,
                   !.media_name = IF media_name # None THEN decode(media_name) ELSE None,
                   !.icon_name = IF icon # None THEN decode(icon) ELSE None]

\* SinkInput.__init__
SinkInput_init(idx, struct, props) ==
    LET base == AbstractMonitorableSink_init(idx)
        self == [idx |-> idx, volume |-> base.volume, channels |-> base.channels,
                 mute |-> base.mute, icon_name |-> base.icon_name, name |-> base.name,
                 sink_idx |-> struct.sink, client |-> 0, app_name |-> None,
                 media_name |-> None, _stream |-> base._stream]
    IN  SinkInput_update(self, struct, props)

\* SinkInput.update: the deferred call, on the updated object
SinkInput_update_notes(self) ==
    << Note("update_sink_input_scale", self.idx, self.volume, self.mute) >>

\* the admission without the check of the driver
sink_input_filtered_name_only(struct) ==
    PyEq(struct.name, Str("audio-volume-change"))

\* _on_new_pa_sink_input returns early: "filter out strange events"
sink_input_filtered(struct) ==
    \/ PyEq(struct.name, Str("audio-volume-change"))
    \/ (struct.driver # None
        /\ decode(struct.driver) \notin {Str("protocol-native.c"), Str("PipeWire")})

\* struct.driver.decode on None
sink_input_raises(struct) ==
    /\ ~ PyEq(struct.name, Str("audio-volume-change"))
    /\ struct.driver = None

_on_new_pa_sink_input(index, struct, props) ==
    /\ IF sink_input_raises(struct)
          THEN err' = "AttributeError" /\ UNCHANGED <<_pa_sink_inputs, idle>>
          ELSE /\ err' = "none"
               /\ IF sink_input_filtered(struct)
                     THEN UNCHANGED <<_pa_sink_inputs, idle>>
                     ELSE IF index \notin DOMAIN _pa_sink_inputs
                             THEN LET self == SinkInput_init(index, struct, props)
                                  IN  /\ _pa_sink_inputs' =
                                             DictSet(_pa_sink_inputs, index, self)
                                      /\ idle' = idle \o SinkInput_update_notes(self)
                                             \o << Note("slider_count_changed", 0, 0, FALSE) >>
                             ELSE LET self == SinkInput_update(_pa_sink_inputs[index],
                                                               struct, props)
                                  IN  /\ _pa_sink_inputs' =
                                             DictSet(_pa_sink_inputs, index, self)
                                      /\ idle' = idle \o SinkInput_update_notes(self)
    /\ last' = Call("_on_new_pa_sink_input", index, struct.name[2], struct.driver[2], 0)
    /\ ret' = NoneRef
    /\ UNCHANGED <<_pa_clients, _pa_sinks, _pa_sinks_by_name, _default_sink,
                   sink_objs, requests>>

_on_remove_pa_sink_input(index) ==
    /\ IF index \in DOMAIN _pa_sink_inputs
          THEN /\ _pa_sink_inputs' = DictDel(_pa_sink_inputs, index)
               /\ idle' = Append(idle, Note("slider_count_changed", 0, 0, FALSE))
          ELSE UNCHANGED <<_pa_sink_inputs, idle>>
    /\ last' = Call("_on_remove_pa_sink_input", index, "", "", 0)
    /\ err' = "none"
    /\ ret' = NoneRef
    /\ UNCHANGED <<_pa_clients, _pa_sinks, _pa_sinks_by_name, _default_sink,
                   sink_objs, requests>>

\* Client.__init__
Client_init(idx) == [idx |-> idx, name |-> Str(""), icon_name |-> None]

\* Client.update
Client_update(self, struct, props) ==
    [self EXCEPT !.name = decode(struct.name),
                 !.icon_name = decode(DictGet(props, "application.icon_name",
                                              Bytes("multimedia-volume-control")))]

_on_new_pa_client(index, struct, props) ==
    /\ _pa_clients' =
          DictSet(_pa_clients, index,
                  Client_update(IF index \notin DOMAIN _pa_clients
                                   THEN Client_init(index)
                                   ELSE _pa_clients[index],
                                struct, props))
    /\ last' = Call("_on_new_pa_client", index, struct.name[2], "", 0)
    /\ err' = "none"
    /\ ret' = NoneRef
    /\ UNCHANGED <<_pa_sinks, _pa_sinks_by_name, _default_sink, _pa_sink_inputs,
                   sink_objs, idle, requests>>

_on_remove_pa_client(index) ==
    /\ _pa_clients' = IF index \in DOMAIN _pa_clients
                         THEN DictDel(_pa_clients, index)
                         ELSE _pa_clients
    /\ last' = Call("_on_remove_pa_client", index, "", "", 0)
    /\ err' = "none"
    /\ ret' = NoneRef
    /\ UNCHANGED <<_pa_sinks, _pa_sinks_by_name, _default_sink, _pa_sink_inputs,
                   sink_objs, idle, requests>>

\* SinkInput.set_volume, on the stream the gui holds for an index of pa_sink_inputs
SinkInput_set_volume(index, volume) ==
    LET self == _pa_sink_inputs[index]
        cvolume == cvolume_from_volume(volume, self.channels)
    IN  /\ index \in DOMAIN _pa_sink_inputs
        /\ _pa_sink_inputs' = [_pa_sink_inputs EXCEPT ![index].volume = volume]
        /\ requests' = Append(requests,
               Request("set_sink_input_volume", self.idx, cvolume, 0))
        /\ last' = Call("SinkInput.set_volume", index, "", "", volume)
        /\ err' = "none"
        /\ ret' = NoneRef
        /\ UNCHANGED <<_pa_clients, _pa_sinks, _pa_sinks_by_name, _default_sink,
                       sink_objs, idle>>

\* SinkInput.set_mute, on the stream the gui holds for an index of pa_sink_inputs
SinkInput_set_mute(index, mute) ==
    LET self == _pa_sink_inputs[index]
    IN  /\ index \in DOMAIN _pa_sink_inputs
        /\ _pa_sink_inputs' = [_pa_sink_inputs EXCEPT ![index].mute = mute]
        /\ requests' = Append(requests,
               Request("set_sink_input_mute", self.idx, NoCVolume, IF mute THEN 1 ELSE 0))
        /\ last' = Call("SinkInput.set_mute", index, "", "", 0)
        /\ err' = "none"
        /\ ret' = NoneRef
        /\ UNCHANGED <<_pa_clients, _pa_sinks, _pa_sinks_by_name, _default_sink,
                       sink_objs, idle>>

(***************************************************************************)
(* The peak monitor: AbstractMonitorableSink._on_stream_read.  A level is  *)
(* the fraction num / den; Python divides the sum by the length and then   *)
(* by 128.0.                                                               *)
(***************************************************************************)
\* the bytes the model draws its blocks from
Samples == {0, 127, 128, 129, 255}
Blocks == UNION { [1..n -> Samples] : n \in 0..MaxBlockLen }

\* no capture stream
NoCapture == [is_sink_input |-> FALSE, idx |-> 0, data |-> << >>, state |-> "none"]

\* sum(...) of a list
RECURSIVE sum(_)
sum(list) == IF list = << >> THEN 0 ELSE Head(list) + sum(Tail(list))

\* the level with the deviations taken absolute
peak_level_abs(data, length) ==
    [num |-> sum([i \in 1..length |->
                    IF data[i] >= 128 THEN data[i] - 128 ELSE 128 - data[i]]),
     den |-> length * 128]

\* sum([data[i] - 128 for i in range(length)]) / length / 128.0
peak_level(data, length) ==
    [num |-> sum([i \in 1..length |-> data[i] - 128]), den |-> length * 128]

\* GObject.idle_add(update_sink_input_peak / update_sink_peak, self.idx, val)
PeakNote(cb, index, val) ==
    [cb |-> cb, index |-> index, volume |-> 0, mute |-> FALSE, val |-> val]

\* the read callback of the capture stream, on the block the stream holds
_on_stream_read ==
    LET length == Len(capture.data)
    IN  /\ capture.state = "ready"
        /\ idle = << >>
        /\ IF length = 0
              THEN \* peeked, ZeroDivisionError before pa_stream_drop
                   /\ capture' = [capture EXCEPT !.state = "peeked"]
                   /\ err' = "ZeroDivisionError"
                   /\ idle' = idle
              ELSE \* peeked, reduced, dropped
                   /\ capture' = [capture EXCEPT !.state = "dropped"]
                   /\ err' = "none"
                   /\ idle' = Append(idle,
                         PeakNote(IF capture.is_sink_input
                                     THEN "update_sink_input_peak"
                                     ELSE "update_sink_peak",
                                  capture.idx, peak_level(capture.data, length)))
        /\ last' = Call("_on_stream_read", capture.idx, "", "", 0)
        /\ ret' = NoneRef
        /\ UNCHANGED <<mgr_vars, requests, net_vars>>

(***************************************************************************)
(* The surroundings: the gui main loop runs the deferred calls, the        *)
(* mainloop hands the operations to the server.                            *)
(***************************************************************************)
IdleRun ==
    /\ proc.exit = "running"
    /\ idle # << >>
    /\ idle' = Tail(idle)
    /\ last' = Call("idle", 0, "", "", 0)
    /\ err' = "none"
    /\ ret' = NoneRef
    /\ sink_objs' = Live(sink_objs, _pa_sinks, _pa_sinks_by_name, NoneRef)
    /\ UNCHANGED <<_pa_clients, _pa_sinks, _pa_sinks_by_name, _default_sink,
                   _pa_sink_inputs, requests, capture, net_vars>>

ServerTake ==
    /\ requests # << >>
    /\ requests' = Tail(requests)
    /\ last' = Call("server", 0, "", "", 0)
    /\ err' = "none"
    /\ ret' = NoneRef
    /\ sink_objs' = Live(sink_objs, _pa_sinks, _pa_sinks_by_name, NoneRef)
    /\ UNCHANGED <<_pa_clients, _pa_sinks, _pa_sinks_by_name, _default_sink,
                   _pa_sink_inputs, idle, capture, net_vars>>

(***************************************************************************)
(* The connection to the server.  requests carries the operations of the  *)
(* context to the server, inbox what the server sends back: subscription   *)
(* events and the answers to the info operations, in the order sent.  srv  *)
(* is the server's graph, whether it has taken the subscription, and how   *)
(* many changes of the graph are left to it.                               *)
(***************************************************************************)
\* a NULL struct pointer: the end of a list, or no such index
NullStruct == [null |-> TRUE]

\* what the server sends: kind is "event" or the info callback to call
Msg(kind, fac, etype, index, struct, props, user_data) ==
    [kind |-> kind, fac |-> fac, etype |-> etype, index |-> index,
     struct |-> struct, props |-> props, user_data |-> user_data]

\* the server's devices, one name to an index
SrvSinkStruct(index) ==
    [name |-> CASE index = 1 -> Bytes("a") [] index = 2 -> Bytes("b") [] OTHER -> Bytes("c"),
     description |-> Bytes("Speakers"),
     volume |-> [channels |-> 1, values |-> <<50>>], mute |-> 0]

\* the server's streams: a player's, the feedback sound, a loopback module's
SrvSinkInputStructs ==
    { [name |-> n, driver |-> d, volume |-> [channels |-> 1, values |-> <<50>>],
       mute |-> 0, sink |-> 1, client |-> 1] :
      <<n, d>> \in { <<Bytes("Playback"), Bytes("protocol-native.c")>>,
                     <<Bytes("audio-volume-change"), Bytes("protocol-native.c")>>,
                     <<Bytes("Playback"), Bytes("module-loopback.c")>> } }

SrvClientStruct == [name |-> Bytes("player")]

InitNet ==
    /\ ctx_state = "connecting"
    /\ inbox = << >>
    /\ srv = [sinks |-> {}, sink_inputs |-> EmptyDict, clients |-> {},
              default_sink_name |-> Bytes("a"), submask |-> 0,
              changes |-> MaxSrvChanges]
    /\ proc = [signals |-> 0, exit |-> "running"]
    /\ pa_streams = EmptyDict

(***************************************************************************)
(* The device reconciler under any sequence of its callbacks and commands. *)
(* The server keeps internal names unique among its live devices: an       *)
(* upsert never carries the name the manager holds for another live index. *)
(***************************************************************************)
NameFree(index, struct) ==
    \A k \in 1..Len(_pa_sinks) :
        _pa_sinks[k].key # index => sink_objs[_pa_sinks[k].ref].sink_name # struct.name

InitManager ==
    /\ _pa_clients = EmptyDict
    /\ _pa_sinks = << >>
    /\ _pa_sinks_by_name = EmptyDict
    /\ _default_sink = None
    /\ _pa_sink_inputs = EmptyDict
    /\ sink_objs = EmptyDict
    /\ idle = << >>
    /\ requests = << >>
    /\ last = Call("__init__", 0, "", "", 0)
    /\ err = "none"
    /\ ret = NoneRef

Init ==
    /\ InitManager
    /\ capture = NoCapture
    /\ InitNet

\* the gui main loop and the mainloop run between two calls: a call finds both
\* queues empty, and what it leaves there is what it queued
Room == idle = << >> /\ requests = << >>

UpsertSink ==
    \E index \in SinkIdx, struct \in SinkStructs :
        /\ Room
        /\ NameFree(index, struct)
        /\ _on_new_pa_sink(index, struct)
        /\ UNCHANGED <<capture, net_vars>>

RemoveSink ==
    \E index \in SinkIdx :
        /\ Room
        /\ _on_remove_pa_sink(index)
        /\ UNCHANGED <<capture, net_vars>>

DefaultSink ==
    \E name \in SinkNames :
        /\ Room
        /\ _on_default_sink(name)
        /\ UNCHANGED <<capture, net_vars>>

GetMainSink ==
    /\ Room
    /\ get_main_sink
    /\ UNCHANGED <<capture, net_vars>>

SetMainVolume ==
    \E volume \in Volumes :
        /\ Room
        /\ set_main_volume(volume)
        /\ UNCHANGED <<capture, net_vars>>

ToggleMainMute ==
    /\ Room
    /\ toggle_main_mute
    /\ UNCHANGED <<capture, net_vars>>

SinkSetVolume ==
    \E index \in SinkIdx, volume \in Volumes :
        /\ Room
        /\ sink_set_volume(index, volume)
        /\ UNCHANGED <<capture, net_vars>>

SinkSetMute ==
    \E index \in SinkIdx, mute \in BOOLEAN :
        /\ Room
        /\ sink_set_mute(index, mute)
        /\ UNCHANGED <<capture, net_vars>>

Next ==
    \/ UpsertSink
    \/ RemoveSink
    \/ DefaultSink
    \/ GetMainSink
    \/ SetMainVolume
    \/ ToggleMainMute
    \/ SinkSetVolume
    \/ SinkSetMute
    \/ IdleRun
    \/ ServerTake

Spec == Init /\ [][Next]_vars

(***************************************************************************)
(* The stream and client reconciler under any sequence of its callbacks    *)
(* and commands.                                                           *)
(***************************************************************************)
UpsertSinkInput ==
    \E index \in SinkInputIdx, struct \in SinkInputStructs, props \in SinkInputProps :
        /\ Room
        /\ _on_new_pa_sink_input(index, struct, props)
        /\ UNCHANGED <<capture, net_vars>>

RemoveSinkInput ==
    \E index \in SinkInputIdx :
        /\ Room
        /\ _on_remove_pa_sink_input(index)
        /\ UNCHANGED <<capture, net_vars>>

UpsertClient ==
    \E index \in ClientIdx, struct \in ClientStructs, props \in ClientProps :
        /\ Room
        /\ _on_new_pa_client(index, struct, props)
        /\ UNCHANGED <<capture, net_vars>>

RemoveClient ==
    \E index \in ClientIdx :
        /\ Room
        /\ _on_remove_pa_client(index)
        /\ UNCHANGED <<capture, net_vars>>

SinkInputSetVolume ==
    \E index \in SinkInputIdx, volume \in Volumes :
        /\ Room
        /\ SinkInput_set_volume(index, volume)
        /\ UNCHANGED <<capture, net_vars>>

SinkInputSetMute ==
    \E index \in SinkInputIdx, mute \in BOOLEAN :
        /\ Room
        /\ SinkInput_set_mute(index, mute)
        /\ UNCHANGED <<capture, net_vars>>

NextStreams ==
    \/ UpsertSinkInput
    \/ RemoveSinkInput
    \/ UpsertClient
    \/ RemoveClient
    \/ SinkInputSetVolume
    \/ SinkInputSetMute
    \/ IdleRun
    \/ ServerTake

SpecStreams == Init /\ [][NextStreams]_vars

(***************************************************************************)
(* Claims on the device reconciler (Spec).                                 *)
(***************************************************************************)
\* the Sink the manager holds at position k of _pa_sinks
SinkAt(k) == sink_objs[_pa_sinks[k].ref]
\* the keys of _pa_sinks in the dict's order
KeySeq == [k \in 1..Len(_pa_sinks) |-> _pa_sinks[k].key]
\* the maps of the manager with the objects they refer to, and the marker
Maps == <<_pa_clients, _pa_sinks, _pa_sinks_by_name, _pa_sink_inputs, _default_sink,
          Live(sink_objs, _pa_sinks, _pa_sinks_by_name, NoneRef)>>

\* C1: after every upsert and removal the name-keyed map holds exactly one entry
\* per live device, under the device's current internal name, referring to that
\* same device: no stale name and no missing device.
C1_NameMapMatchesLiveSinks ==
    /\ DOMAIN _pa_sinks_by_name = { SinkAt(k).sink_name : k \in 1..Len(_pa_sinks) }
    /\ \A k \in 1..Len(_pa_sinks) :
           _pa_sinks_by_name[SinkAt(k).sink_name] = _pa_sinks[k].ref

\* C2: a removal notification for an index that is not in the map of its kind
\* raises nothing, leaves every map and the marker as they are, and queues nothing.
C2_RemoveUnknownIsNoOp ==
    [][ ( \/ /\ last'.op = "_on_remove_pa_sink"
             /\ last'.index \notin OKeys(_pa_sinks)
          \/ /\ last'.op = "_on_remove_pa_sink_input"
             /\ last'.index \notin DOMAIN _pa_sink_inputs
          \/ /\ last'.op = "_on_remove_pa_client"
             /\ last'.index \notin DOMAIN _pa_clients )
        => ( err' = "none" /\ Maps' = Maps /\ idle' = idle ) ]_vars

\* C7: with no marker set, get_main_sink returns the earliest-inserted device that
\* is still live (the dict keeps the indices in the order of their insertion,
\* whatever their numeric order); with the marker naming a live device, it returns
\* that device.
C7_KeysInInsertionOrder ==
    \/ KeySeq' = KeySeq
    \/ \E i \in SinkIdx \ OKeys(_pa_sinks) : KeySeq' = Append(KeySeq, i)
    \/ \E k \in 1..Len(KeySeq) :
          KeySeq' = [j \in 1..(Len(KeySeq) - 1) |-> IF j < k THEN KeySeq[j] ELSE KeySeq[j + 1]]

C7_MainSinkReturned ==
    last.op = "get_main_sink" =>
        /\ (_default_sink = None /\ Len(_pa_sinks) > 0)
              => (err = "none" /\ ret = ORef(_pa_sinks, KeySeq[1]))
        /\ \A k \in 1..Len(_pa_sinks) :
              (_default_sink # None /\ SinkAt(k).sink_name = _default_sink)
                  => (err = "none" /\ ret = _pa_sinks[k].ref)

C7_MainSinkResolution == [] C7_MainSinkReturned /\ [][C7_KeysInInsertionOrder]_vars

\* get_main_sink, with no marker, has returned the first-inserted of two live
\* devices, whose index is the higher one
C7_Witness ==
    /\ last.op = "get_main_sink"
    /\ _default_sink = None
    /\ Len(_pa_sinks) = 2
    /\ _pa_sinks[1].key > _pa_sinks[2].key
    /\ ret = _pa_sinks[1].ref

\* C8: a device upsert queues update_values (main values changed) exactly when the
\* internal name of its payload equals the marker at that moment, once, and with
\* the volume and mute the device has after the upsert.
C8_MainValuesNotified ==
    [][ last'.op = "_on_new_pa_sink" =>
          LET added == SubSeq(idle', Len(idle) + 1, Len(idle'))
              main == { k \in 1..Len(added) : added[k].cb = "update_values" }
              self == sink_objs'[ORef(_pa_sinks', last'.index)]
          IN  /\ (main # {}) <=> (Bytes(last'.name) = _default_sink)
              /\ Cardinality(main) <= 1
              /\ \A k \in main : added[k].volume = self.volume /\ added[k].mute = self.mute
      ]_vars

\* a known device, named by the marker, was upserted with volume 70, unmuted: one
\* update_values(70, False) is queued (and the scale update, and no count change)
C8_Witness ==
    /\ last.op = "_on_new_pa_sink"
    /\ Len(idle) = 2
    /\ idle[1] = Note("update_values", 0, 70, FALSE)
    /\ idle[2].cb = "update_sink_scale"
    /\ _default_sink = Bytes(last.name)

\* C9: with the marker set and no live device of that name, get_main_sink,
\* set_main_volume and toggle_main_mute end in an exception: nothing is
\* dispatched and no cached volume or mute changes.
C9_AbsentMainSinkFails ==
    [][ ( /\ last'.op \in {"get_main_sink", "set_main_volume", "toggle_main_mute"}
          /\ _default_sink # None
          /\ \A k \in 1..Len(_pa_sinks) : SinkAt(k).sink_name # _default_sink )
        => ( /\ err' # "none"
             /\ requests' = requests
             /\ \A o \in DOMAIN sink_objs \cap DOMAIN sink_objs' :
                   /\ sink_objs'[o].volume = sink_objs[o].volume
                   /\ sink_objs'[o].mute = sink_objs[o].mute ) ]_vars

(***************************************************************************)
(* Claims on the stream reconciler (SpecStreams).                          *)
(***************************************************************************)
AcceptedDrivers == {"protocol-native.c", "PipeWire"}

\* C3: a stream payload whose driver is outside the accepted set leaves the stream
\* map and the queue of deferred calls as they are, on every arrival.
C3_ForeignDriverDropped ==
    [][ (last'.op = "_on_new_pa_sink_input" /\ last'.driver \notin AcceptedDrivers)
        => (_pa_sink_inputs' = _pa_sink_inputs /\ idle' = idle) ]_vars

\* a payload of the loopback module arrived for the index of a stream the map
\* holds: nothing is queued
C3_Witness ==
    /\ last.op = "_on_new_pa_sink_input"
    /\ last.driver = "module-loopback.c"
    /\ last.index \in DOMAIN _pa_sink_inputs
    /\ idle = << >>

\* C4: a stream payload named audio-volume-change is dropped even when its driver
\* is accepted: it leaves the stream map and the queue of deferred calls as they are.
C4_FeedbackSoundDropped ==
    [][ (last'.op = "_on_new_pa_sink_input" /\ last'.name = "audio-volume-change")
        => (_pa_sink_inputs' = _pa_sink_inputs /\ idle' = idle) ]_vars

(***************************************************************************)
(* The volume commands: devices and a player's streams of every channel    *)
(* count are upserted, and the gui sets volumes on the objects it holds.   *)
(***************************************************************************)
VolumeUpsertSink ==
    \E index \in SinkIdx, volume \in PayloadCVolumes :
        /\ Room
        /\ _on_new_pa_sink(index, [SrvSinkStruct(index) EXCEPT !.volume = volume])
        /\ UNCHANGED <<capture, net_vars>>

VolumeUpsertSinkInput ==
    \E index \in SinkInputIdx, volume \in PayloadCVolumes :
        /\ Room
        /\ _on_new_pa_sink_input(index,
              [name |-> Bytes("Playback"), driver |-> Bytes("protocol-native.c"),
               volume |-> volume, mute |-> 0, sink |-> 1, client |-> 1],
              EmptyDict)
        /\ UNCHANGED <<capture, net_vars>>

NextVolume ==
    \/ VolumeUpsertSink
    \/ VolumeUpsertSinkInput
    \/ SinkSetVolume
    \/ SinkInputSetVolume
    \/ IdleRun
    \/ ServerTake

SpecVolume == Init /\ [][NextVolume]_vars

\* the operation the call has just handed to the server
Dispatched == requests'[Len(requests')]
\* a vector of exactly n entries, all v: the count is n, the first n slots hold v
ExpandsTo(cvolume, n, v) ==
    /\ cvolume.channels = n
    /\ \A i \in 1..n : cvolume.values[i] = v
\* the channel counts the objects record
ChannelsOfSinks == [k \in 1..Len(_pa_sinks) |-> SinkAt(k).channels]
ChannelsOfSinkInputs == [i \in DOMAIN _pa_sink_inputs |-> _pa_sink_inputs[i].channels]

\* C5: set_volume on a device or a stream of n channels hands the server one
\* operation for that index whose per-channel vector has exactly n entries, all
\* the requested volume; n is the count the object recorded before the call, and
\* only an upsert changes what the objects record.
C5_SetVolumeExpandsToChannels ==
    /\ [][last'.op = "Sink.set_volume" =>
            /\ requests' = Append(requests, Dispatched)
            /\ Dispatched.op = "set_sink_volume"
            /\ Dispatched.index = last'.index
            /\ ExpandsTo(Dispatched.cvolume,
                         sink_objs[ORef(_pa_sinks, last'.index)].channels,
                         last'.volume)]_vars
    /\ [][last'.op = "SinkInput.set_volume" =>
            /\ requests' = Append(requests, Dispatched)
            /\ Dispatched.op = "set_sink_input_volume"
            /\ Dispatched.index = last'.index
            /\ ExpandsTo(Dispatched.cvolume,
                         _pa_sink_inputs[last'.index].channels,
                         last'.volume)]_vars
    /\ [][last'.op \notin {"_on_new_pa_sink", "_on_new_pa_sink_input"} =>
            /\ ChannelsOfSinks' = ChannelsOfSinks
            /\ ChannelsOfSinkInputs' = ChannelsOfSinkInputs]_vars

\* a volume has been set on a stream of two channels: the operation that waits
\* for the server has two entries of that volume and no third
C5_Witness ==
    /\ last.op = "SinkInput.set_volume"
    /\ Len(requests) = 1
    /\ requests[1].cvolume.channels = 2
    /\ requests[1].cvolume.values[1] = last.volume
    /\ requests[1].cvolume.values[2] = last.volume
    /\ requests[1].cvolume.values[3] = 0

(***************************************************************************)
(* The peak computation on every block up to MaxBlockLen bytes: the        *)
(* capture stream of a device or of a stream holds one block to read.      *)
(***************************************************************************)
InitPeak ==
    /\ InitManager
    /\ InitNet
    /\ capture \in [is_sink_input : BOOLEAN, idx : {1}, data : Blocks, state : {"ready"}]

StreamRead == _on_stream_read

NextPeak ==
    \/ StreamRead
    \/ IdleRun

SpecPeak == InitPeak /\ [][NextPeak]_vars

\* the level of the last deferred call, as a fraction
LastLevel == idle[Len(idle)].val
\* the bytes of a block added up
RECURSIVE ByteSum(_)
ByteSum(block) == IF block = << >> THEN 0 ELSE ByteSum(Tail(block)) + Head(block)
\* |b - 128| over the block, added up
RECURSIVE AbsDevSum(_)
AbsDevSum(block) ==
    IF block = << >> THEN 0
    ELSE AbsDevSum(Tail(block))
         + (IF Head(block) >= 128 THEN Head(block) - 128 ELSE 128 - Head(block))
\* the block is all b
AllOf(block, b) == \A i \in 1..Len(block) : block[i] = b
\* the block alternates 0 and 255
Alternating(block) ==
    /\ Len(block) >= 2
    /\ \A i \in 1..Len(block) : block[i] = (IF i % 2 = 1 THEN 0 ELSE 255)
\* a read of a non-empty block has just returned
PeakRead == last.op = "_on_stream_read" /\ err = "none" /\ idle # << >>

\* C6 as stated: the level is the mean of the absolute deviations from 128 over
\* 128; all 128 gives 0, all 255 gives 1, all 0 gives 1, alternating 0 and 255
\* gives 1; the level lies in [0, 1].
C6_PeakIsMeanAbsoluteDeviation ==
    PeakRead =>
        LET block == capture.data
            n == Len(block)
            v == LastLevel
        IN  /\ v.num * (n * 128) = AbsDevSum(block) * v.den
            /\ AllOf(block, 128) => v.num = 0
            /\ AllOf(block, 255) => v.num = v.den
            /\ AllOf(block, 0) => v.num = v.den
            /\ Alternating(block) => v.num = v.den
            /\ 0 <= v.num /\ v.num <= v.den

\* C6 as the code has it: the level is the mean of the signed deviations (byte -
\* 128) over 128: all 128 gives 0, all 255 gives 127/128, all 0 gives -1, an
\* even-length block alternating 0 and 255 gives -1/256; the level lies in
\* [-1, 127/128], and in [0, 127/128] when every byte is 128 or more.
C6_PeakIsMeanSignedDeviation ==
    PeakRead =>
        LET block == capture.data
            n == Len(block)
            v == LastLevel
        IN  /\ v.den > 0
            /\ v.num * (n * 128) = (ByteSum(block) - 128 * n) * v.den
            /\ AllOf(block, 128) => v.num = 0
            /\ AllOf(block, 255) => 128 * v.num = 127 * v.den
            /\ AllOf(block, 0) => v.num = - v.den
            /\ (Alternating(block) /\ n % 2 = 0) => 256 * v.num = - v.den
            /\ - v.den <= v.num /\ 128 * v.num <= 127 * v.den
            /\ (\A i \in 1..n : block[i] >= 128) => 0 <= v.num

\* the block 0, 255 has been read: its level is negative
C6_Witness ==
    /\ PeakRead
    /\ capture.data = <<0, 255>>
    /\ LastLevel.num < 0

(***************************************************************************)
(* PulseAudio: the context's callbacks, run by the mainloop thread on what *)
(* the server sends, and the server they talk to.                          *)
(***************************************************************************)
\* an info operation handed to the server
Info(op, index) == Request(op, index, NoCVolume, 0)

\* PulseAudio._request_update
_request_update ==
    << Info("get_server_info", 0), Info("get_client_info_list", 0),
       Info("get_sink_info_list", 0), Info("get_sink_input_info_list", 0) >>

\* the bits of pa_subscription_mask_t
PA_SUBSCRIPTION_MASK_SINK == 1
PA_SUBSCRIPTION_MASK_SINK_INPUT == 4
PA_SUBSCRIPTION_MASK_CLIENT == 32
\* a mask of distinct bits has the bit
MaskHas(mask, bit) == (mask \div bit) % 2 = 1

\* the order libpulse reports the states of a context in: the states before
\* READY, then READY or an end; a ready context may still fail or terminate
ContextMayReach(state) ==
    CASE state = "SETTING_NAME" -> ctx_state = "connecting"
      [] state = "READY" -> ctx_state = "connecting"
      [] state \in {"FAILED", "TERMINATED"} -> ctx_state \in {"connecting", "READY"}

\* sys.exit(1) raises SystemExit inside a callback run by ctypes: the
\* interpreter either ends the process with the status or reports the exception
\* as ignored and goes on
SysExitOutcomes == {"exit(1)", "running"}

\* PulseAudio._context_notify_cb, on the state the context has come to
_context_notify_cb(state, outcome) ==
    /\ proc.exit = "running"
    /\ ContextMayReach(state)
    /\ ctx_state' = IF state = "SETTING_NAME" THEN ctx_state ELSE state
    /\ requests' = IF state = "READY"
                      THEN requests \o _request_update
                           \o << Info("subscribe",
                                      PA_SUBSCRIPTION_MASK_SINK
                                      + PA_SUBSCRIPTION_MASK_SINK_INPUT
                                      + PA_SUBSCRIPTION_MASK_CLIENT) >>
                      ELSE requests
    /\ proc' = CASE state = "FAILED" ->
                      [signals |-> proc.signals + 1, exit |-> outcome]
                 [] state = "TERMINATED" ->
                      [proc EXCEPT !.signals = @ + 1]
                 [] OTHER -> proc
    /\ last' = Call("_context_notify_cb", 0, state, "", 0)
    /\ err' = IF state = "FAILED" THEN "SystemExit" ELSE "none"
    /\ ret' = NoneRef
    /\ UNCHANGED <<mgr_vars, idle, capture, inbox, srv, pa_streams>>

\* the dispatch asking for a facility's whole list on an event
subscribe_cb_lookup_list(msg) ==
    /\ requests' = Append(requests,
          Info(CASE msg.fac = "client" -> "get_client_info_list"
                 [] msg.fac = "sink" -> "get_sink_info_list"
                 [] msg.fac = "sink_input" -> "get_sink_input_info_list",
               0))
    /\ last' = Call("_pa_context_subscribe_cb", msg.index, msg.fac, "", 0)
    /\ err' = "none"
    /\ ret' = NoneRef
    /\ UNCHANGED <<mgr_vars, idle>>

\* the dispatch asking for the server info again with every lookup
subscribe_cb_lookup_refresh(msg) ==
    /\ requests' = requests \o
          << Info(CASE msg.fac = "client" -> "get_client_info"
                    [] msg.fac = "sink" -> "get_sink_info_by_index"
                    [] msg.fac = "sink_input" -> "get_sink_input_info",
                  msg.index),
             Info("get_server_info", 0) >>
    /\ last' = Call("_pa_context_subscribe_cb", msg.index, msg.fac, "", 0)
    /\ err' = "none"
    /\ ret' = NoneRef
    /\ UNCHANGED <<mgr_vars, idle>>

\* PulseAudio._pa_context_subscribe_cb on an event that is no removal
subscribe_cb_lookup(msg) ==
    /\ requests' = Append(requests,
          Info(CASE msg.fac = "client" -> "get_client_info"
                 [] msg.fac = "sink" -> "get_sink_info_by_index"
                 [] msg.fac = "sink_input" -> "get_sink_input_info",
               msg.index))
    /\ last' = Call("_pa_context_subscribe_cb", msg.index, msg.fac, "", 0)
    /\ err' = "none"
    /\ ret' = NoneRef
    /\ UNCHANGED <<mgr_vars, idle>>

\* PulseAudio._pa_context_subscribe_cb on a removal
subscribe_cb_remove(msg) ==
    CASE msg.fac = "client" -> _on_remove_pa_client(msg.index)
      [] msg.fac = "sink" -> _on_remove_pa_sink(msg.index)
      [] msg.fac = "sink_input" -> _on_remove_pa_sink_input(msg.index)

\* an info callback that finds nothing to pass on
info_cb_skip(msg) ==
    /\ last' = Call(msg.kind, 0, "", "", 0)
    /\ err' = "none"
    /\ ret' = NoneRef
    /\ UNCHANGED <<mgr_vars, idle, requests>>

_pa_context_subscribe_cb(msg) ==
    IF msg.etype = "remove" THEN subscribe_cb_remove(msg) ELSE subscribe_cb_lookup(msg)

_pa_client_info_cb(msg) ==
    IF msg.struct # NullStruct
       THEN _on_new_pa_client(msg.index, msg.struct, msg.props)
       ELSE info_cb_skip(msg)

_pa_sink_input_info_cb(msg) ==
    IF msg.struct # NullStruct /\ msg.user_data
       THEN _on_new_pa_sink_input(msg.index, msg.struct, msg.props)
       ELSE info_cb_skip(msg)

_pa_sink_info_cb(msg) ==
    IF msg.struct # NullStruct
       THEN _on_new_pa_sink(msg.index, msg.struct)
       ELSE info_cb_skip(msg)

_pa_server_info_cb(msg) ==
    IF msg.struct # NullStruct
       THEN _on_default_sink(msg.struct.default_sink_name)
       ELSE info_cb_skip(msg)

\* the mainloop thread takes the next thing the server sent and calls back
Deliver ==
    /\ proc.exit = "running"
    /\ ctx_state = "READY"
    /\ inbox # << >>
    /\ idle = << >>
    /\ inbox' = Tail(inbox)
    /\ LET msg == Head(inbox)
       IN  CASE msg.kind = "event" -> _pa_context_subscribe_cb(msg)
             [] msg.kind = "client_info" -> _pa_client_info_cb(msg)
             [] msg.kind = "sink_input_info" -> _pa_sink_input_info_cb(msg)
             [] msg.kind = "sink_info" -> _pa_sink_info_cb(msg)
             [] msg.kind = "server_info" -> _pa_server_info_cb(msg)
    /\ UNCHANGED <<capture, ctx_state, srv, proc, pa_streams>>

ContextNotify ==
    \E state \in {"SETTING_NAME", "READY", "FAILED", "TERMINATED"},
       outcome \in SysExitOutcomes :
        _context_notify_cb(state, outcome)

\* the indices of a set, ascending
Ascending(set, max) ==
    LET in(i) == i \in set
    IN  SelectSeq([i \in 1..max |-> i], in)

\* what the server answers to an info operation: one struct to a callback, and
\* a last callback without a struct
ClientInfo(index) ==
    Msg("client_info", "client", "", index, SrvClientStruct, EmptyDict, FALSE)
SinkInfo(index) ==
    Msg("sink_info", "sink", "", index, SrvSinkStruct(index), EmptyDict, TRUE)
SinkInputInfo(index) ==
    Msg("sink_input_info", "sink_input", "", index, srv.sink_inputs[index], EmptyDict, TRUE)
EndOf(kind, user_data) ==
    Msg(kind, "", "", 0, NullStruct, EmptyDict, user_data)

Answer(req) ==
    CASE req.op = "get_server_info" ->
           << Msg("server_info", "", "", 0,
                  [default_sink_name |-> srv.default_sink_name], EmptyDict, FALSE) >>
      [] req.op = "get_client_info_list" ->
           [k \in 1..Cardinality(srv.clients) |->
               ClientInfo(Ascending(srv.clients, MaxClientIdx)[k])]
           \o << EndOf("client_info", FALSE) >>
      [] req.op = "get_sink_info_list" ->
           [k \in 1..Cardinality(srv.sinks) |->
               SinkInfo(Ascending(srv.sinks, MaxSinkIdx)[k])]
           \o << EndOf("sink_info", FALSE) >>
      [] req.op = "get_sink_input_info_list" ->
           [k \in 1..Cardinality(DOMAIN srv.sink_inputs) |->
               SinkInputInfo(Ascending(DOMAIN srv.sink_inputs, MaxSinkInputIdx)[k])]
           \o << EndOf("sink_input_info", TRUE) >>
      [] req.op = "get_client_info" ->
           (IF req.index \in srv.clients THEN << ClientInfo(req.index) >> ELSE << >>)
           \o << EndOf("client_info", FALSE) >>
      [] req.op = "get_sink_info_by_index" ->
           (IF req.index \in srv.sinks THEN << SinkInfo(req.index) >> ELSE << >>)
           \o << EndOf("sink_info", TRUE) >>
      [] req.op = "get_sink_input_info" ->
           (IF req.index \in DOMAIN srv.sink_inputs
               THEN << SinkInputInfo(req.index) >> ELSE << >>)
           \o << EndOf("sink_input_info", TRUE) >>
      [] OTHER -> << >>

\* the server takes the next operation of the context
SrvProcess ==
    /\ requests # << >>
    /\ requests' = Tail(requests)
    /\ inbox' = inbox \o Answer(Head(requests))
    /\ srv' = IF Head(requests).op = "subscribe"
                 THEN [srv EXCEPT !.submask = Head(requests).index]
                 ELSE srv
    /\ UNCHANGED <<mgr_vars, idle, call_vars, capture, ctx_state, proc, pa_streams>>

\* the bit of the subscription mask that asks for a facility's events
FacilityMask(fac) ==
    CASE fac = "sink" -> PA_SUBSCRIPTION_MASK_SINK
      [] fac = "sink_input" -> PA_SUBSCRIPTION_MASK_SINK_INPUT
      [] fac = "client" -> PA_SUBSCRIPTION_MASK_CLIENT

\* a change of the server's graph, told to the subscribers
SrvChange(graph, fac, etype, index) ==
    /\ srv.changes > 0
    /\ srv' = [graph EXCEPT !.changes = srv.changes - 1]
    /\ inbox' = IF MaskHas(srv.submask, FacilityMask(fac))
                   THEN Append(inbox, Msg("event", fac, etype, index,
                                          NullStruct, EmptyDict, FALSE))
                   ELSE inbox
    /\ UNCHANGED <<mgr_vars, idle, requests, call_vars, capture, ctx_state, proc, pa_streams>>

SrvNewSink ==
    \E index \in SinkIdx \ srv.sinks :
        SrvChange([srv EXCEPT !.sinks = @ \cup {index}], "sink", "new", index)

SrvRemoveSink ==
    \E index \in srv.sinks :
        SrvChange([srv EXCEPT !.sinks = @ \ {index}], "sink", "remove", index)

SrvNewSinkInput ==
    \E index \in SinkInputIdx \ DOMAIN srv.sink_inputs, struct \in SrvSinkInputStructs :
        SrvChange([srv EXCEPT !.sink_inputs = DictSet(@, index, struct)],
                  "sink_input", "new", index)

SrvRemoveSinkInput ==
    \E index \in DOMAIN srv.sink_inputs :
        SrvChange([srv EXCEPT !.sink_inputs = DictDel(@, index)],
                  "sink_input", "remove", index)

SrvNewClient ==
    \E index \in ClientIdx \ srv.clients :
        SrvChange([srv EXCEPT !.clients = @ \cup {index}], "client", "new", index)

SrvRemoveClient ==
    \E index \in srv.clients :
        SrvChange([srv EXCEPT !.clients = @ \ {index}], "client", "remove", index)

NextNet ==
    \/ ContextNotify
    \/ Deliver
    \/ IdleRun
    \/ SrvProcess
    \/ SrvNewSink
    \/ SrvRemoveSink
    \/ SrvNewSinkInput
    \/ SrvRemoveSinkInput
    \/ SrvNewClient
    \/ SrvRemoveClient

SpecNet == Init /\ [][NextNet]_vars

\* the mainloop thread and the gui main loop keep running, the server answers
FairSpecNet ==
    /\ SpecNet
    /\ WF_vars(Deliver)
    /\ WF_vars(IdleRun)
    /\ WF_vars(SrvProcess)

\* the streams of the server the reconciler is to admit
AdmittedSinkInputs ==
    { i \in DOMAIN srv.sink_inputs :
        /\ srv.sink_inputs[i].name # Bytes("audio-volume-change")
        /\ srv.sink_inputs[i].driver[2] \in AcceptedDrivers }

\* the index sets of the three maps are those of the server's graph
MirrorMatchesServer ==
    /\ OKeys(_pa_sinks) = srv.sinks
    /\ DOMAIN _pa_clients = srv.clients
    /\ DOMAIN _pa_sink_inputs = AdmittedSinkInputs

\* C10: on a ready connection where everything sent is delivered, the index
\* sets of the device map, the client map and the stream map come to equal the
\* server's live devices, clients and admitted streams, and stay equal.
C10_MirrorEventuallyConsistent ==
    <>[](ctx_state = "READY" => MirrorMatchesServer)

(***************************************************************************)
(* Claims on the connection (FairSpecNet).                                 *)
(***************************************************************************)
\* the operations of a sequence, by name
OpsOf(reqs) == [k \in 1..Len(reqs) |-> reqs[k].op]
\* what the context has handed to the server in this step
Issued == SubSeq(requests', Len(requests) + 1, Len(requests'))
\* the context comes to a state in this step
Reaches(state) == ctx_state # state /\ ctx_state' = state

\* C11, on ready: exactly the four initial requests are issued, in the order
\* server info, client list, device list, stream list, and then the subscription
\* for the device, stream and client topics.
C11_ReadyIssuesBurstThenSubscribes ==
    Reaches("READY") =>
        /\ requests' = requests \o Issued
        /\ OpsOf(Issued) = << "get_server_info", "get_client_info_list",
                              "get_sink_info_list", "get_sink_input_info_list",
                              "subscribe" >>
        /\ \A fac \in {"sink", "sink_input", "client"} :
              MaskHas(Issued[5].index, FacilityMask(fac))

\* C11, on failed: the process exits with a non-zero status.
C11_FailedExitsNonZero ==
    Reaches("FAILED") => proc'.exit = "exit(1)"

\* C11, on terminated: the event loop is signalled to stop.
C11_TerminatedSignalsLoop ==
    Reaches("TERMINATED") =>
        /\ proc'.signals = proc.signals + 1
        /\ proc'.exit = "running"

\* C11, after failed or terminated: the context stays where it ended and
\* nothing more is handed to the server.
C11_NoReconnect ==
    ctx_state \in {"FAILED", "TERMINATED"} =>
        /\ ctx_state' = ctx_state
        /\ Len(requests') <= Len(requests)

\* C11: on ready the connection issues the four initial requests and then the
\* subscription for the three topics; on failed the process exits with a
\* non-zero status and never reconnects or re-issues requests; on terminated
\* the event loop is signalled to stop and no reconnect is attempted.
C11_ConnectionStateHandling ==
    [][/\ C11_ReadyIssuesBurstThenSubscribes
       /\ C11_FailedExitsNonZero
       /\ C11_TerminatedSignalsLoop
       /\ C11_NoReconnect]_vars

\* the parts of C11 other than the exit on failed
C11_AllButExit ==
    [][/\ C11_ReadyIssuesBurstThenSubscribes
       /\ C11_TerminatedSignalsLoop
       /\ C11_NoReconnect]_vars

(***************************************************************************)
(* Claims on the deferred notifications of the reconcilers.                *)
(***************************************************************************)
\* the deferred calls queued in this step
Queued == SubSeq(idle', Len(idle) + 1, Len(idle'))
\* how many of a sequence of deferred calls go to a callback
Count(notes, cb) == Cardinality({ k \in 1..Len(notes) : notes[k].cb = cb })
\* the payload just applied is one the reconciler is to admit
AdmittedPayload == last'.name # "audio-volume-change" /\ last'.driver \in AcceptedDrivers

\* C12, devices: a first insert queues one count-changed call, an update none,
\* the removal of a known index one, after the device has left both maps.
C12_DeviceCountChanged ==
    /\ last'.op = "_on_new_pa_sink" =>
          /\ idle' = idle \o Queued
          /\ Count(Queued, "slider_count_changed") =
                (IF last'.index \in OKeys(_pa_sinks) THEN 0 ELSE 1)
    /\ last'.op = "_on_remove_pa_sink" =>
          /\ idle' = idle \o Queued
          /\ IF last'.index \in OKeys(_pa_sinks)
                THEN /\ Count(Queued, "slider_count_changed") = 1
                     /\ last'.index \notin OKeys(_pa_sinks')
                     /\ \A n \in DOMAIN _pa_sinks_by_name' :
                           _pa_sinks_by_name'[n] # ORef(_pa_sinks, last'.index)
                ELSE Count(Queued, "slider_count_changed") = 0

\* C12, streams: the first insert of an admitted stream queues one count-changed
\* call, an update or a payload not admitted none, the removal of a known index
\* one.
C12_StreamCountChanged ==
    /\ last'.op = "_on_new_pa_sink_input" =>
          /\ idle' = idle \o Queued
          /\ Count(Queued, "slider_count_changed") =
                (IF AdmittedPayload /\ last'.index \notin DOMAIN _pa_sink_inputs
                    THEN 1 ELSE 0)
    /\ last'.op = "_on_remove_pa_sink_input" =>
          /\ idle' = idle \o Queued
          /\ Count(Queued, "slider_count_changed") =
                (IF last'.index \in DOMAIN _pa_sink_inputs THEN 1 ELSE 0)
          /\ last'.index \notin DOMAIN _pa_sink_inputs'

\* C12: every change of the set of live devices or admitted streams queues
\* exactly one deferred count-changed notification: one on a first insert, one
\* on the removal of a known index (for a device after it has left the index
\* map and the name map), none on an in-place update.
C12_CountChangedOncePerChange ==
    [][C12_DeviceCountChanged /\ C12_StreamCountChanged]_vars

\* the device part of C12 for upserts alone
C12_DeviceUpsertCountChanged ==
    [][last'.op = "_on_new_pa_sink" =>
          Count(Queued, "slider_count_changed") =
             (IF last'.index \in OKeys(_pa_sinks) THEN 0 ELSE 1)]_vars

(***************************************************************************)
(* The upserts of devices and streams with every payload, the default      *)
(* marker set or not.                                                      *)
(***************************************************************************)
\* payloads of streams on device 1, of a player and of a loopback module
ScaleSinkInputStructs ==
    { struct \in SinkInputStructs :
        /\ struct.sink = 1
        /\ struct.driver \in {Bytes("protocol-native.c"), Bytes("module-loopback.c")} }

ScaleUpsertSinkInput ==
    \E index \in SinkInputIdx, struct \in ScaleSinkInputStructs :
        /\ Room
        /\ _on_new_pa_sink_input(index, struct, EmptyDict)
        /\ UNCHANGED <<capture, net_vars>>

NextScale ==
    \/ UpsertSink
    \/ DefaultSink
    \/ ScaleUpsertSinkInput
    \/ IdleRun

SpecScale == Init /\ [][NextScale]_vars

\* the deferred calls of a sequence that go to a callback
Only(notes, cb) ==
    LET to(note) == note.cb = cb
    IN  SelectSeq(notes, to)
\* a scale-changed call for an index with the volume and mute an object holds
ScaleNote(cb, index, obj) == Note(cb, index, obj.volume, obj.mute)

\* C13: every device upsert, and every upsert of an admitted stream, creating or
\* updating, queues exactly one scale-changed call for the index on its own
\* channel (update_sink_scale, update_sink_input_scale) with the volume and mute
\* the payload has just set on the object; the callbacks are queued, none is
\* called in the step.
C13_ScaleChangedOncePerUpsert ==
    /\ [][last'.op = "_on_new_pa_sink" =>
            /\ idle' = idle \o Queued
            /\ Only(Queued, "update_sink_scale") =
                  << ScaleNote("update_sink_scale", last'.index,
                               sink_objs'[ORef(_pa_sinks', last'.index)]) >>
            /\ Only(Queued, "update_sink_input_scale") = << >>]_vars
    /\ [][(last'.op = "_on_new_pa_sink_input" /\ AdmittedPayload) =>
            /\ idle' = idle \o Queued
            /\ Only(Queued, "update_sink_input_scale") =
                  << ScaleNote("update_sink_input_scale", last'.index,
                               _pa_sink_inputs'[last'.index]) >>
            /\ Only(Queued, "update_sink_scale") = << >>]_vars

\* a known device has been updated to two channels, muted, at volume 70, and a
\* scale-changed call with these values waits in the queue
C13_Witness ==
    /\ last.op = "_on_new_pa_sink"
    /\ Len(idle) = 1
    /\ idle[1] = Note("update_sink_scale", last.index, 70, TRUE)
    /\ sink_objs[ORef(_pa_sinks, last.index)].channels = 2

(***************************************************************************)
(* SinkInput: the name and icon_name properties.  A read returns a value   *)
(* or ends in an exception, <<"raise", exception>>.  An attribute lookup   *)
(* raises AttributeError where the object has no such attribute.           *)
(***************************************************************************)
raise(exc) == <<"raise", exc>>
\* str(v), as "{}".format(v) gives it
format(v) == v[2]

\* PulseAudioManager.get_pa_client
get_pa_client(client) ==
    IF client \in DOMAIN _pa_clients THEN _pa_clients[client] ELSE raise("KeyError")

\* SinkInput._get_client
_get_client(self) == get_pa_client(self.client)

\* the attribute of the client _get_client returns, or its exception
client_attr(self, attr) ==
    IF _get_client(self) = raise("KeyError")
       THEN raise("KeyError")
       ELSE _get_client(self)[attr]

\* SinkInput.icon_name
SinkInput_icon_name(self) ==
    IF "icon_name" \in DOMAIN self
       THEN self.icon_name
       ELSE client_attr(self, "icon_name")

\* SinkInput.name
SinkInput_name(self) ==
    IF {"app_name", "media_name"} \subseteq DOMAIN self
       THEN Str(format(self.app_name) \o ": " \o format(self.media_name))
       ELSE IF "app_name" \in DOMAIN self
               THEN self.app_name
               ELSE client_attr(self, "name")

\* C14, the name: application name and media title when the stream has them;
\* the name of the owning client when the stream has neither and the client is
\* in the client map; in every case a value and no exception.
C14_NameFollowsChain ==
    \A i \in DOMAIN _pa_sink_inputs :
        LET self == _pa_sink_inputs[i]
            name == SinkInput_name(self)
        IN  /\ name[1] # "raise"
            /\ (self.app_name # None /\ self.media_name # None) =>
                  name = Str(self.app_name[2] \o ": " \o self.media_name[2])
            /\ (self.app_name = None /\ self.media_name = None
                  /\ self.client \in DOMAIN _pa_clients) =>
                  name = _pa_clients[self.client].name

\* C14, the icon: the icon of the stream's properties when it has one, else
\* the icon of the owning client when it is in the client map, else a value and
\* no exception.
C14_IconFollowsChain ==
    \A i \in DOMAIN _pa_sink_inputs :
        LET self == _pa_sink_inputs[i]
            icon == SinkInput_icon_name(self)
        IN  /\ icon[1] # "raise"
            /\ self.icon_name # None => icon = self.icon_name
            /\ (self.icon_name = None /\ self.client \in DOMAIN _pa_clients) =>
                  icon = _pa_clients[self.client].icon_name

\* C14: after any update the name and the icon of a stream follow the fallback
\* chain (own properties, else the owning client's when it is in the client
\* map, else an empty or default value), and a read with the owning client
\* absent from the client map does not raise.
C14_NameAndIconFallBack == C14_NameFollowsChain /\ C14_IconFollowsChain

\* C14, the part on exceptions alone: no read of a name or an icon raises
C14_ReadsNeverRaise ==
    \A i \in DOMAIN _pa_sink_inputs :
        /\ SinkInput_name(_pa_sink_inputs[i])[1] # "raise"
        /\ SinkInput_icon_name(_pa_sink_inputs[i])[1] # "raise"

(***************************************************************************)
(* Claims on the subscription dispatch (FairSpecNet).                      *)
(***************************************************************************)
\* the mainloop thread runs a callback on the oldest message in this step
Delivers == inbox # << >> /\ inbox' = Tail(inbox)
\* the by-index lookup of a facility, its removal path and its upsert path
LookupOf(fac) ==
    CASE fac = "client" -> "get_client_info"
      [] fac = "sink" -> "get_sink_info_by_index"
      [] fac = "sink_input" -> "get_sink_input_info"
RemovalOf(fac) ==
    CASE fac = "client" -> "_on_remove_pa_client"
      [] fac = "sink" -> "_on_remove_pa_sink"
      [] fac = "sink_input" -> "_on_remove_pa_sink_input"
UpsertOf(fac) ==
    CASE fac = "client" -> "_on_new_pa_client"
      [] fac = "sink" -> "_on_new_pa_sink"
      [] fac = "sink_input" -> "_on_new_pa_sink_input"
\* the indices a facility's map holds after the step
IndicesAfter(fac) ==
    CASE fac = "client" -> DOMAIN _pa_clients'
      [] fac = "sink" -> OKeys(_pa_sinks')
      [] fac = "sink_input" -> DOMAIN _pa_sink_inputs'

\* C15: a removed event calls the facility's removal path with the event's
\* index and hands nothing to the server; any other event hands the server
\* exactly one by-index lookup for the facility and the index and changes no
\* map; an answer with a struct calls the facility's upsert path with the index
\* of the answer.
C15_SubscriptionDispatch ==
    [][Delivers =>
        LET msg == Head(inbox)
        IN  /\ (msg.kind = "event" /\ msg.etype = "remove") =>
                  /\ last' = Call(RemovalOf(msg.fac), msg.index, "", "", 0)
                  /\ msg.index \notin IndicesAfter(msg.fac)
                  /\ requests' = requests
            /\ (msg.kind = "event" /\ msg.etype # "remove") =>
                  /\ requests' = Append(requests,
                                        Request(LookupOf(msg.fac), msg.index, NoCVolume, 0))
                  /\ UNCHANGED <<mgr_vars, idle>>
            /\ (msg.kind \in {"client_info", "sink_info", "sink_input_info"}
                /\ msg.struct # NullStruct) =>
                  /\ last'.op = UpsertOf(msg.fac)
                  /\ last'.index = msg.index
                  /\ last'.name = msg.struct.name[2]
                  /\ requests' = requests]_vars

\* a device has come into the map by the answer to a by-index lookup, whose end
\* is what is left to deliver, and the server has no change left to make
C15_Witness ==
    /\ last.op = "_on_new_pa_sink"
    /\ last.index \in OKeys(_pa_sinks)
    /\ inbox = << EndOf("sink_info", TRUE) >>
    /\ srv.changes = 0

(***************************************************************************)
(* AbstractMonitorableSink: monitor_stream and stop_monitor_stream, on the *)
(* Sink or SinkInput the gui holds for an index.  pa_streams holds the     *)
(* capture streams that are connected, under the identity pa_stream_new    *)
(* gave them.                                                              *)
(***************************************************************************)
\* no disconnect of the stream the object holds
disconnect_never(self) == pa_streams

\* pa_stream_disconnect(self._stream), where there is one
disconnect_if_any(self) ==
    IF self._stream # NoStream /\ self._stream \in DOMAIN pa_streams
       THEN DictDel(pa_streams, self._stream)
       ELSE pa_streams

\* pa_stream_new: an identity no stream of the server has
NewStream == CHOOSE id \in 1..(MaxStreams + 1) :
                /\ id \notin DOMAIN pa_streams
                /\ \A p \in 1..(id - 1) : p \in DOMAIN pa_streams

\* pa_stream_set_monitor_stream for a stream, pa_stream_connect_record to the
\* device str(self.sink_idx)
connect_record(self, is_sink_input, sink_idx) ==
    DictSet(disconnect_if_any(self), NewStream,
            [is_sink_input |-> is_sink_input,
             monitor_of |-> IF is_sink_input THEN self.idx ELSE 0,
             device |-> sink_idx,
             owner |-> self.idx])

\* Sink.monitor_stream; Sink.sink_idx is self.idx
Sink_monitor_stream(index) ==
    LET oid == ORef(_pa_sinks, index)
        self == sink_objs[oid]
    IN  /\ index \in OKeys(_pa_sinks)
        /\ Cardinality(DOMAIN connect_record(self, FALSE, self.idx)) <= MaxStreams
        /\ pa_streams' = connect_record(self, FALSE, self.idx)
        /\ sink_objs' = Live([sink_objs EXCEPT ![oid]._stream = NewStream],
                             _pa_sinks, _pa_sinks_by_name, NoneRef)
        /\ last' = Call("Sink.monitor_stream", index, "", "", 0)
        /\ err' = "none"
        /\ ret' = NoneRef
        /\ UNCHANGED <<_pa_clients, _pa_sinks, _pa_sinks_by_name, _default_sink,
                       _pa_sink_inputs, idle, requests>>

\* Sink.stop_monitor_stream
Sink_stop_monitor_stream(index) ==
    LET oid == ORef(_pa_sinks, index)
        self == sink_objs[oid]
    IN  /\ index \in OKeys(_pa_sinks)
        /\ pa_streams' = disconnect_if_any(self)
        /\ sink_objs' = Live([sink_objs EXCEPT ![oid]._stream = NoStream],
                             _pa_sinks, _pa_sinks_by_name, NoneRef)
        /\ last' = Call("Sink.stop_monitor_stream", index, "", "", 0)
        /\ err' = "none"
        /\ ret' = NoneRef
        /\ UNCHANGED <<_pa_clients, _pa_sinks, _pa_sinks_by_name, _default_sink,
                       _pa_sink_inputs, idle, requests>>

\* SinkInput.monitor_stream; SinkInput.sink_idx is self._sink_idx
SinkInput_monitor_stream(index) ==
    LET self == _pa_sink_inputs[index]
    IN  /\ index \in DOMAIN _pa_sink_inputs
        /\ Cardinality(DOMAIN connect_record(self, TRUE, self.sink_idx)) <= MaxStreams
        /\ pa_streams' = connect_record(self, TRUE, self.sink_idx)
        /\ _pa_sink_inputs' = [_pa_sink_inputs EXCEPT ![index]._stream = NewStream]
        /\ last' = Call("SinkInput.monitor_stream", index, "", "", 0)
        /\ err' = "none"
        /\ ret' = NoneRef
        /\ UNCHANGED <<_pa_clients, _pa_sinks, _pa_sinks_by_name, _default_sink,
                       sink_objs, idle, requests>>

\* SinkInput.stop_monitor_stream
SinkInput_stop_monitor_stream(index) ==
    LET self == _pa_sink_inputs[index]
    IN  /\ index \in DOMAIN _pa_sink_inputs
        /\ pa_streams' = disconnect_if_any(self)
        /\ _pa_sink_inputs' = [_pa_sink_inputs EXCEPT ![index]._stream = NoStream]
        /\ last' = Call("SinkInput.stop_monitor_stream", index, "", "", 0)
        /\ err' = "none"
        /\ ret' = NoneRef
        /\ UNCHANGED <<_pa_clients, _pa_sinks, _pa_sinks_by_name, _default_sink,
                       sink_objs, idle, requests>>

\* the variables of the connection but the capture streams
conn_vars == <<ctx_state, inbox, srv, proc>>

SinkMonitorStream ==
    \E index \in SinkIdx :
        Room /\ Sink_monitor_stream(index) /\ UNCHANGED <<capture, conn_vars>>

SinkStopMonitorStream ==
    \E index \in SinkIdx :
        Room /\ Sink_stop_monitor_stream(index) /\ UNCHANGED <<capture, conn_vars>>

SinkInputMonitorStream ==
    \E index \in SinkInputIdx :
        Room /\ SinkInput_monitor_stream(index) /\ UNCHANGED <<capture, conn_vars>>

SinkInputStopMonitorStream ==
    \E index \in SinkInputIdx :
        Room /\ SinkInput_stop_monitor_stream(index) /\ UNCHANGED <<capture, conn_vars>>

(***************************************************************************)
(* The capture streams of entities that are upserted and monitored.        *)
(***************************************************************************)
NextMonitor ==
    \/ VolumeUpsertSink
    \/ VolumeUpsertSinkInput
    \/ SinkMonitorStream
    \/ SinkStopMonitorStream
    \/ SinkInputMonitorStream
    \/ SinkInputStopMonitorStream
    \/ IdleRun

SpecMonitor == Init /\ [][NextMonitor]_vars

\* the same with the removals of entities, each entity with one payload
MonitorUpsertSink ==
    \E index \in SinkIdx :
        /\ Room
        /\ _on_new_pa_sink(index, SrvSinkStruct(index))
        /\ UNCHANGED <<capture, net_vars>>

MonitorUpsertSinkInput ==
    \E index \in SinkInputIdx :
        /\ Room
        /\ _on_new_pa_sink_input(index,
              [name |-> Bytes("Playback"), driver |-> Bytes("protocol-native.c"),
               volume |-> [channels |-> 1, values |-> <<50>>], mute |-> 0,
               sink |-> 1, client |-> 1],
              EmptyDict)
        /\ UNCHANGED <<capture, net_vars>>

NextMonitorRemove ==
    \/ MonitorUpsertSink
    \/ MonitorUpsertSinkInput
    \/ SinkMonitorStream
    \/ SinkStopMonitorStream
    \/ SinkInputMonitorStream
    \/ SinkInputStopMonitorStream
    \/ RemoveSink
    \/ RemoveSinkInput
    \/ IdleRun

SpecMonitorRemove == Init /\ [][NextMonitorRemove]_vars

(***************************************************************************)
(* Claims on the capture streams.                                          *)
(***************************************************************************)
\* the connected capture streams of the device, or of the stream, with an index
StreamsOf(streams, is_sink_input, index) ==
    { id \in DOMAIN streams :
        streams[id].is_sink_input = is_sink_input /\ streams[id].owner = index }
\* the handle of the object the step is about, before and after the step
HandleBefore ==
    IF last'.op \in {"Sink.monitor_stream", "Sink.stop_monitor_stream"}
       THEN sink_objs[ORef(_pa_sinks, last'.index)]._stream
       ELSE _pa_sink_inputs[last'.index]._stream
HandleAfter ==
    IF last'.op \in {"Sink.monitor_stream", "Sink.stop_monitor_stream"}
       THEN sink_objs'[ORef(_pa_sinks', last'.index)]._stream
       ELSE _pa_sink_inputs'[last'.index]._stream
\* the step is about a stream
OnSinkInput == last'.op \in {"SinkInput.monitor_stream", "SinkInput.stop_monitor_stream"}

\* C16, in every state: an entity has at most one connected capture stream, the
\* one its handle holds.
C16_AtMostOneConnected ==
    /\ \A k \in 1..Len(_pa_sinks) :
          StreamsOf(pa_streams, FALSE, _pa_sinks[k].key) = {SinkAt(k)._stream} \ {NoStream}
    /\ \A i \in DOMAIN _pa_sink_inputs :
          StreamsOf(pa_streams, TRUE, i) = {_pa_sink_inputs[i]._stream} \ {NoStream}

\* C16, monitor_stream: the stream that was connected is disconnected and the
\* replacement, a new stream, is the one connected stream of the entity.
C16_MonitorReplaces ==
    last'.op \in {"Sink.monitor_stream", "SinkInput.monitor_stream"} =>
        /\ HandleAfter # NoStream
        /\ HandleAfter # HandleBefore
        /\ HandleBefore \notin DOMAIN pa_streams'
        /\ StreamsOf(pa_streams', OnSinkInput, last'.index) = {HandleAfter}
        /\ DOMAIN pa_streams' = (DOMAIN pa_streams \ {HandleBefore}) \cup {HandleAfter}

\* C16, stop_monitor_stream: the handle is left empty and the stream it held
\* is disconnected; with no stream held nothing is disconnected and nothing
\* changes.
C16_StopIsIdempotent ==
    last'.op \in {"Sink.stop_monitor_stream", "SinkInput.stop_monitor_stream"} =>
        /\ HandleAfter = NoStream
        /\ DOMAIN pa_streams' = DOMAIN pa_streams \ {HandleBefore}
        /\ HandleBefore = NoStream =>
              /\ pa_streams' = pa_streams
              /\ UNCHANGED <<mgr_vars, idle, requests>>

\* C16: after any sequence of monitor_stream and stop_monitor_stream calls on
\* an entity at most one capture channel of the entity is connected;
\* monitor_stream on an active channel disconnects it before it opens the
\* replacement; stop_monitor_stream leaves the handle empty and is idempotent.
C16_OneCaptureChannel ==
    /\ [] C16_AtMostOneConnected
    /\ [][C16_MonitorReplaces /\ C16_StopIsIdempotent]_vars

\* a stream's capture channel has been replaced: the second stream is connected
\* for it and the first is not
C16_Witness ==
    /\ last.op = "SinkInput.monitor_stream"
    /\ _pa_sink_inputs[last.index]._stream = 2
    /\ DOMAIN pa_streams = {2}

\* C17: in no state is a connected capture channel bound to an index that is
\* absent from the map of its kind: a removal notification finds the channel of
\* the entity disconnected or disconnects it before the entity leaves the map.
C17_NoChannelOutlivesEntity ==
    \A id \in DOMAIN pa_streams :
        IF pa_streams[id].is_sink_input
           THEN pa_streams[id].owner \in DOMAIN _pa_sink_inputs
           ELSE pa_streams[id].owner \in OKeys(_pa_sinks)

\* C18: every call of the read callback, for every length of the block, zero
\* included, peeks the block and drops it once before it returns, and queues
\* exactly one peak call with the index of the owner, update_sink_input_peak
\* when the owner is a stream and update_sink_peak when it is a device; no call
\* returns with the peeked block not dropped.
C18_ReadDropsAndNotifiesOnce ==
    last.op = "_on_stream_read" =>
        /\ capture.state = "dropped"
        /\ Len(idle) = 1
        /\ idle[1].cb = (IF capture.is_sink_input
                            THEN "update_sink_input_peak"
                            ELSE "update_sink_peak")
        /\ idle[1].index = capture.idx

\* C18 for the blocks that are not empty
C18_NonEmptyReadDropsAndNotifiesOnce ==
    (last.op = "_on_stream_read" /\ capture.data # << >>) =>
        /\ capture.state = "dropped"
        /\ Len(idle) = 1
        /\ idle[1].cb = (IF capture.is_sink_input
                            THEN "update_sink_input_peak"
                            ELSE "update_sink_peak")
        /\ idle[1].index = capture.idx

(***************************************************************************)
(* The commands of the gui on devices and streams, the default marker set  *)
(* or not.                                                                 *)
(***************************************************************************)
NextCommands ==
    \/ VolumeUpsertSink
    \/ VolumeUpsertSinkInput
    \/ DefaultSink
    \/ SinkSetVolume
    \/ SinkSetMute
    \/ SinkInputSetVolume
    \/ SinkInputSetMute
    \/ SetMainVolume
    \/ ToggleMainMute
    \/ IdleRun
    \/ ServerTake

SpecCommands == Init /\ [][NextCommands]_vars

\* the one operation the step hands to the server, and nothing else
DispatchesOne(op, index, cvolume, mute) ==
    requests' = Append(requests, Request(op, index, cvolume, mute))
\* a mute as the server takes it
AsInt(mute) == IF mute THEN 1 ELSE 0
\* the cached mute of every object, by identity and by index
CachedMutes ==
    << [o \in DOMAIN sink_objs |-> sink_objs[o].mute],
       [i \in DOMAIN _pa_sink_inputs |-> _pa_sink_inputs[i].mute] >>

\* C19, on a device: the cached value is the requested one and one operation
\* for the device's index is handed to the server and not waited for.
C19_SinkCommands ==
    /\ last'.op = "Sink.set_volume" =>
          LET oid == ORef(_pa_sinks, last'.index)
          IN  /\ sink_objs'[oid].volume = last'.volume
              /\ requests' = Append(requests, Dispatched)
              /\ Dispatched.op = "set_sink_volume"
              /\ Dispatched.index = sink_objs[oid].idx
    /\ last'.op = "Sink.set_mute" =>
          LET oid == ORef(_pa_sinks, last'.index)
          IN  /\ DispatchesOne("set_sink_mute", sink_objs[oid].idx, NoCVolume,
                               AsInt(sink_objs'[oid].mute))
              /\ Dispatched.mute \in {0, 1}

\* C19, on a stream: the same with the operations for streams.
C19_SinkInputCommands ==
    /\ last'.op = "SinkInput.set_volume" =>
          /\ _pa_sink_inputs'[last'.index].volume = last'.volume
          /\ requests' = Append(requests, Dispatched)
          /\ Dispatched.op = "set_sink_input_volume"
          /\ Dispatched.index = last'.index
    /\ last'.op = "SinkInput.set_mute" =>
          /\ DispatchesOne("set_sink_input_mute", last'.index, NoCVolume,
                           AsInt(_pa_sink_inputs'[last'.index].mute))
          /\ Dispatched.mute \in {0, 1}

\* C19, toggle_main_mute: the negation of the cached mute of the main device is
\* cached and dispatched, and no other cached mute changes; a step that is
\* neither an upsert nor a mute command changes no cached mute, so a second
\* toggle restores the mute the first one found.
C19_ToggleNegates ==
    /\ (last'.op = "toggle_main_mute" /\ err' = "none") =>
          LET oid == get_main_sink_result
          IN  /\ sink_objs'[oid].mute = ~ sink_objs[oid].mute
              /\ DispatchesOne("set_sink_mute", sink_objs[oid].idx, NoCVolume,
                               AsInt(~ sink_objs[oid].mute))
              /\ \A o \in DOMAIN sink_objs \ {oid} : sink_objs'[o].mute = sink_objs[o].mute
    /\ last'.op \in {"idle", "server", "Sink.set_volume", "SinkInput.set_volume",
                     "set_main_volume", "_on_default_sink"} =>
          CachedMutes' = CachedMutes

\* C19: set_volume and set_mute on a device or a stream set the cached volume or
\* mute to the requested value and dispatch exactly one mutation for the index
\* of the entity, the mute as 0 or 1, without waiting; toggle_main_mute
\* dispatches the negation of the cached mute of the main device, so that two
\* toggles in a row restore the cached mute.
C19_OptimisticCommands ==
    [][C19_SinkCommands /\ C19_SinkInputCommands /\ C19_ToggleNegates]_vars

\* the main device named by the marker has been toggled to muted, and the
\* operation that mutes it waits for the server
C19_Witness ==
    /\ last.op = "toggle_main_mute"
    /\ err = "none"
    /\ _default_sink # None
    /\ requests = << Request("set_sink_mute", sink_objs[get_main_sink_result].idx,
                             NoCVolume, 1) >>
    /\ sink_objs[get_main_sink_result].mute

(***************************************************************************)
(* Commands against a server that keeps the volume and the mute of its     *)
(* entities: one device and one player's stream, there from the start.     *)
(* The server applies an operation that sets a volume or a mute, or        *)
(* refuses it; it tells its subscribers of an entity whose state changed;  *)
(* its reply to the operation goes to __null_cb, which does nothing.       *)
(***************************************************************************)
SrvPlayerStruct ==
    [name |-> Bytes("Playback"), driver |-> Bytes("protocol-native.c"),
     volume |-> [channels |-> 1, values |-> <<50>>],
     mute |-> 0, sink |-> 1, client |-> 1]

InitHeal ==
    /\ InitManager
    /\ capture = NoCapture
    /\ ctx_state = "connecting"
    /\ inbox = << >>
    /\ srv = [sinks |-> {1}, sink_state |-> DictSet(EmptyDict, 1, SrvSinkStruct(1)),
              sink_inputs |-> DictSet(EmptyDict, 1, SrvPlayerStruct),
              clients |-> {1}, default_sink_name |-> Bytes("a"), submask |-> 0,
              changes |-> 0, rejected |-> FALSE]
    /\ proc = [signals |-> 0, exit |-> "running"]
    /\ pa_streams = EmptyDict

\* the pa_cvolume the server keeps of the one an operation carries
Kept(cvolume) ==
    [channels |-> cvolume.channels,
     values |-> [i \in 1..cvolume.channels |-> cvolume.values[i]]]

\* the server's state once it has applied the operation
Applied(req) ==
    CASE req.op = "set_sink_volume" ->
           [srv EXCEPT !.sink_state[req.index].volume = Kept(req.cvolume)]
      [] req.op = "set_sink_mute" ->
           [srv EXCEPT !.sink_state[req.index].mute = req.mute]
      [] req.op = "set_sink_input_volume" ->
           [srv EXCEPT !.sink_inputs[req.index].volume = Kept(req.cvolume)]
      [] req.op = "set_sink_input_mute" ->
           [srv EXCEPT !.sink_inputs[req.index].mute = req.mute]

SetOps == {"set_sink_volume", "set_sink_mute", "set_sink_input_volume",
           "set_sink_input_mute"}
SinkOps == {"set_sink_volume", "set_sink_mute"}

\* the server's answer to an info operation, with the state it keeps of a device
HealAnswer(req) ==
    CASE req.op = "get_sink_info_list" ->
           [k \in 1..Cardinality(srv.sinks) |->
               [SinkInfo(Ascending(srv.sinks, MaxSinkIdx)[k])
                  EXCEPT !.struct = srv.sink_state[Ascending(srv.sinks, MaxSinkIdx)[k]]]]
           \o << EndOf("sink_info", FALSE) >>
      [] req.op = "get_sink_info_by_index" ->
           (IF req.index \in srv.sinks
               THEN << [SinkInfo(req.index) EXCEPT !.struct = srv.sink_state[req.index]] >>
               ELSE << >>)
           \o << EndOf("sink_info", TRUE) >>
      [] OTHER -> Answer(req)

\* the server takes an operation that sets a volume or a mute
SrvSet ==
    \E outcome \in {"applied", "rejected"} :
        LET req == Head(requests)
            fac == IF req.op \in SinkOps THEN "sink" ELSE "sink_input"
        IN  /\ requests # << >>
            /\ req.op \in SetOps
            /\ requests' = Tail(requests)
            /\ IF outcome = "applied"
                  THEN /\ srv' = Applied(req)
                       /\ inbox' = IF srv' # srv /\ MaskHas(srv.submask, FacilityMask(fac))
                                      THEN Append(inbox, Msg("event", fac, "change", req.index,
                                                             NullStruct, EmptyDict, FALSE))
                                      ELSE inbox
                  ELSE /\ srv' = [srv EXCEPT !.rejected = TRUE]
                       /\ inbox' = inbox
            /\ UNCHANGED <<mgr_vars, idle, call_vars, capture, ctx_state, proc, pa_streams>>

\* the server takes any other operation of the context
SrvInfo ==
    /\ requests # << >>
    /\ Head(requests).op \notin SetOps
    /\ requests' = Tail(requests)
    /\ inbox' = inbox \o HealAnswer(Head(requests))
    /\ srv' = IF Head(requests).op = "subscribe"
                 THEN [srv EXCEPT !.submask = Head(requests).index]
                 ELSE srv
    /\ UNCHANGED <<mgr_vars, idle, call_vars, capture, ctx_state, proc, pa_streams>>

\* the context becomes ready
ContextReady ==
    /\ ctx_state = "connecting"
    /\ _context_notify_cb("READY", "running")

\* the gui gives a command while at most MaxInFlight - 1 messages of the server
\* wait for the mainloop thread
Quiet == Len(inbox) < MaxInFlight
HealSinkSetVolume == Quiet /\ SinkSetVolume
HealSinkSetMute == Quiet /\ SinkSetMute
HealSinkInputSetVolume == Quiet /\ SinkInputSetVolume
HealSinkInputSetMute == Quiet /\ SinkInputSetMute

NextHeal ==
    \/ ContextReady
    \/ Deliver
    \/ IdleRun
    \/ SrvInfo
    \/ SrvSet
    \/ HealSinkSetVolume
    \/ HealSinkSetMute
    \/ HealSinkInputSetVolume
    \/ HealSinkInputSetMute

SpecHeal == InitHeal /\ [][NextHeal]_vars

\* everything sent is delivered, the gui main loop runs, the server takes every
\* operation
FairSpecHeal ==
    /\ SpecHeal
    /\ WF_vars(Deliver)
    /\ WF_vars(IdleRun)
    /\ WF_vars(SrvInfo)
    /\ WF_vars(SrvSet)

\* the cached volume and mute of a device or stream are the server's
CacheOf(self, struct) ==
    /\ self.volume = struct.volume.values[1]
    /\ self.mute = (struct.mute # 0)
CachesMatchServer ==
    /\ \A index \in OKeys(_pa_sinks) \cap srv.sinks :
          CacheOf(sink_objs[ORef(_pa_sinks, index)], srv.sink_state[index])
    /\ \A index \in DOMAIN _pa_sink_inputs \cap DOMAIN srv.sink_inputs :
          CacheOf(_pa_sink_inputs[index], srv.sink_inputs[index])
\* a volume or mute command has just been given
Commanded ==
    last.op \in {"Sink.set_volume", "Sink.set_mute",
                 "SinkInput.set_volume", "SinkInput.set_mute"}

\* C20: after a volume or mute command on a live device or stream, applied or
\* refused by the server, the cached volume and mute of every entity come to
\* equal the server's, the server telling of an entity only when its state
\* changed and everything sent being delivered.
C20_CacheHealsAfterCommand == Commanded ~> CachesMatchServer

\* C20, the commands the server applies: as long as the server has refused
\* nothing, the caches come to equal the server's values after a command.
C20_AppliedCommandHeals == Commanded ~> (CachesMatchServer \/ srv.rejected)

(***************************************************************************)
(* The two threads.  The callbacks run in the thread of the threaded       *)
(* mainloop, the main-device commands in the gui thread; no lock is taken  *)
(* around either, so the gui thread may run between any two statements of  *)
(* _on_new_pa_sink.  proc.pa_thread is where the mainloop thread stands:   *)
(* in the mainloop, or before a line of _on_new_pa_sink.                   *)
(***************************************************************************)
InMainloop == [at |-> "mainloop", index |-> 0, old_name |-> None]

InitThreads ==
    /\ InitManager
    /\ capture = NoCapture
    /\ ctx_state = "READY"
    /\ inbox = << >>
    /\ srv = [sinks |-> {}, sink_inputs |-> EmptyDict, clients |-> {},
              default_sink_name |-> Bytes("a"), submask |-> 0, changes |-> 0]
    /\ proc = [signals |-> 0, exit |-> "running", pa_thread |-> InMainloop]
    /\ pa_streams = EmptyDict

\* the payloads of the upserts: any internal name, one volume
ThreadSinkStructs ==
    { [name |-> n, description |-> Bytes("Speakers"),
       volume |-> [channels |-> 1, values |-> <<50>>], mute |-> 0] : n \in SinkNames }

\* what a statement of _on_new_pa_sink leaves alone
PaThreadFrame(index, struct) ==
    /\ last' = Call("_on_new_pa_sink", index, struct.name[2], "", 0)
    /\ ret' = NoneRef
    /\ err' = "none"
    /\ UNCHANGED <<_pa_clients, _default_sink, _pa_sink_inputs, requests, capture,
                   ctx_state, inbox, srv, pa_streams>>

\* lines 407-409: the first sight of an index, up to self._pa_sinks[index] = sink
on_new_pa_sink_407(index, struct) ==
    LET oid == NewOid
        sink == Sink_update(AbstractMonitorableSink_init(index), struct)
        sinks == OInsert(_pa_sinks, index, oid)
    IN  /\ index \notin OKeys(_pa_sinks)
        /\ _pa_sinks' = sinks
        /\ sink_objs' = Live(DictSet(sink_objs, oid, sink), sinks, _pa_sinks_by_name, NoneRef)
        /\ idle' = idle \o Sink_update_notes(sink)
        /\ proc' = [proc EXCEPT !.pa_thread =
                       [at |-> "line 410", index |-> index, old_name |-> None]]
        /\ UNCHANGED _pa_sinks_by_name

\* lines 410-411: the entry of the name map and slider_count_changed
on_new_pa_sink_410 ==
    LET oid == ORef(_pa_sinks, proc.pa_thread.index)
        byname == DictSet(_pa_sinks_by_name, sink_objs[oid].sink_name, oid)
    IN  /\ proc.pa_thread.at = "line 410"
        /\ _pa_sinks_by_name' = byname
        /\ sink_objs' = Live(sink_objs, _pa_sinks, byname, NoneRef)
        /\ idle' = Append(idle, Note("slider_count_changed", 0, 0, FALSE))
        /\ proc' = [proc EXCEPT !.pa_thread = InMainloop]
        /\ UNCHANGED _pa_sinks

\* lines 413-416: a known index, old_name read and sink.update(struct, props)
on_new_pa_sink_413(index, struct) ==
    LET oid == ORef(_pa_sinks, index)
        sink == Sink_update(sink_objs[oid], struct)
    IN  /\ index \in OKeys(_pa_sinks)
        /\ sink_objs' = Live(DictSet(sink_objs, oid, sink), _pa_sinks,
                             _pa_sinks_by_name, NoneRef)
        /\ idle' = idle \o Sink_update_notes(sink)
        /\ proc' = [proc EXCEPT !.pa_thread =
                       [at |-> "line 418", index |-> index,
                        old_name |-> sink_objs[oid].sink_name]]
        /\ UNCHANGED <<_pa_sinks, _pa_sinks_by_name>>

\* line 418: del self._pa_sinks_by_name[old_name]
on_new_pa_sink_418 ==
    /\ proc.pa_thread.at = "line 418"
    /\ proc.pa_thread.old_name \in DOMAIN _pa_sinks_by_name
    /\ _pa_sinks_by_name' = DictDel(_pa_sinks_by_name, proc.pa_thread.old_name)
    /\ sink_objs' = Live(sink_objs, _pa_sinks, _pa_sinks_by_name', NoneRef)
    /\ proc' = [proc EXCEPT !.pa_thread.at = "line 419"]
    /\ UNCHANGED <<_pa_sinks, idle>>

\* line 419: self._pa_sinks_by_name[sink.sink_name] = sink
on_new_pa_sink_419 ==
    LET oid == ORef(_pa_sinks, proc.pa_thread.index)
        byname == DictSet(_pa_sinks_by_name, sink_objs[oid].sink_name, oid)
    IN  /\ proc.pa_thread.at = "line 419"
        /\ _pa_sinks_by_name' = byname
        /\ sink_objs' = Live(sink_objs, _pa_sinks, byname, NoneRef)
        /\ proc' = [proc EXCEPT !.pa_thread = InMainloop]
        /\ UNCHANGED <<_pa_sinks, idle>>

\* the mainloop thread enters _on_new_pa_sink
PaUpsertEnters ==
    \E index \in SinkIdx, struct \in ThreadSinkStructs :
        /\ proc.pa_thread.at = "mainloop"
        /\ idle = << >>
        /\ NameFree(index, struct)
        /\ on_new_pa_sink_407(index, struct) \/ on_new_pa_sink_413(index, struct)
        /\ PaThreadFrame(index, struct)

\* the mainloop thread runs the next statement of _on_new_pa_sink
PaUpsertGoesOn ==
    LET index == proc.pa_thread.index
    IN  /\ proc.pa_thread.at # "mainloop"
        /\ on_new_pa_sink_410 \/ on_new_pa_sink_418 \/ on_new_pa_sink_419
        /\ PaThreadFrame(index, [name |-> sink_objs[ORef(_pa_sinks, index)].sink_name])

\* the mainloop thread runs _on_default_sink
PaDefaultSink ==
    \E name \in SinkNames :
        /\ proc.pa_thread.at = "mainloop"
        /\ idle = << >>
        /\ _on_default_sink(name)
        /\ UNCHANGED <<capture, net_vars>>

\* the gui thread runs a main-device command, wherever the mainloop thread stands
UiGetMainSink ==
    /\ requests = << >>
    /\ get_main_sink
    /\ UNCHANGED <<capture, net_vars>>

UiSetMainVolume ==
    \E volume \in Volumes :
        /\ requests = << >>
        /\ set_main_volume(volume)
        /\ UNCHANGED <<capture, net_vars>>

UiToggleMainMute ==
    /\ requests = << >>
    /\ toggle_main_mute
    /\ UNCHANGED <<capture, net_vars>>

NextThreads ==
    \/ PaUpsertEnters
    \/ PaUpsertGoesOn
    \/ PaDefaultSink
    \/ UiGetMainSink
    \/ UiSetMainVolume
    \/ UiToggleMainMute
    \/ IdleRun
    \/ ServerTake

SpecThreads == InitThreads /\ [][NextThreads]_vars

\* the name map as the gui thread finds it: one entry per live device, under
\* the device's current internal name
NameMapWhole ==
    /\ \A k \in 1..Len(_pa_sinks) :
          /\ SinkAt(k).sink_name \in DOMAIN _pa_sinks_by_name
          /\ _pa_sinks_by_name[SinkAt(k).sink_name] = _pa_sinks[k].ref
    /\ \A n \in DOMAIN _pa_sinks_by_name :
          sink_objs[_pa_sinks_by_name[n]].sink_name = n
\* the live devices that bear the marker's name
MarkerDevices ==
    { _pa_sinks[k].ref : k \in { j \in 1..Len(_pa_sinks) : SinkAt(j).sink_name = _default_sink } }
\* the gui thread runs a main-device command
UiCommandStep ==
    last'.op \in {"get_main_sink", "set_main_volume", "toggle_main_mute"}

\* C21: a main-device command of the gui thread, run at any point of an upsert
\* of the mainloop thread, finds a name map with every live device under its
\* current name, resolves the marker's device and does not fail.
C21_UiNeverSeesTornNameMap ==
    [][ UiCommandStep =>
          /\ NameMapWhole
          /\ MarkerDevices # {} =>
                /\ err' = "none"
                /\ last'.op = "get_main_sink" => ret' \in MarkerDevices ]_vars

\* C21, between the upserts: with the mainloop thread in its mainloop the gui
\* thread finds the name map whole and the command resolves the marker's device.
C21_WholeBetweenUpserts ==
    [][ (UiCommandStep /\ proc.pa_thread.at = "mainloop") =>
          /\ NameMapWhole
          /\ MarkerDevices # {} =>
                /\ err' = "none"
                /\ last'.op = "get_main_sink" => ret' \in MarkerDevices ]_vars

(***************************************************************************)
(* The marker of the default device: the connection with its server, whose *)
(* default device may change, and the commands of the gui.                *)
(***************************************************************************)
\* the server's default device changes; the subscription asks for the events of
\* devices, streams and clients, so no subscriber of this context is told
SrvNewDefault ==
    \E name \in SinkNames \ {srv.default_sink_name} :
        /\ srv.changes > 0
        /\ srv' = [srv EXCEPT !.default_sink_name = name, !.changes = @ - 1]
        /\ UNCHANGED <<mgr_vars, idle, requests, call_vars, capture, ctx_state, inbox,
                       proc, pa_streams>>

NextMarker ==
    \/ ContextNotify
    \/ Deliver
    \/ IdleRun
    \/ SrvProcess
    \/ SrvNewSink
    \/ SrvRemoveSink
    \/ SrvNewSinkInput
    \/ SrvRemoveSinkInput
    \/ SrvNewClient
    \/ SrvRemoveClient
    \/ SrvNewDefault
    \/ GetMainSink
    \/ SetMainVolume
    \/ ToggleMainMute
    \/ SinkSetMute
    \/ SinkInputSetVolume

SpecMarker == Init /\ [][NextMarker]_vars

\* the marker is written in this step
MarkerWritten == _default_sink' # _default_sink
\* a server-info response with a struct is handed to its callback in this step
ServerInfoDelivered ==
    /\ Delivers
    /\ Head(inbox).kind = "server_info"
    /\ Head(inbox).struct # NullStruct

\* C22: the marker is written only by a server-info response, with the name the
\* response carries; a server-info request is issued only when the connection
\* enters ready, so no event, upsert, removal or command writes the marker or
\* asks for the server info; once set, the marker stays as it is while the
\* connection stays ready; and setting it changes no map and queues no
\* notification.
C22_MarkerWrittenByServerInfoOnly ==
    [][ /\ MarkerWritten =>
              /\ ServerInfoDelivered
              /\ _default_sink' = Head(inbox).struct.default_sink_name
        /\ (\E k \in 1..Len(Issued) : Issued[k].op = "get_server_info") => Reaches("READY")
        /\ (ctx_state = "READY" /\ ctx_state' = "READY" /\ _default_sink # None) =>
              _default_sink' = _default_sink
        /\ ServerInfoDelivered =>
              /\ UNCHANGED <<_pa_clients, _pa_sinks, _pa_sinks_by_name, _pa_sink_inputs>>
              /\ sink_objs' = sink_objs
              /\ idle' = idle
              /\ requests' = requests ]_vars

\* the marker was set from the initial response; since then the server's
\* default device has changed, a device was upserted and the gui toggled its
\* mute: the marker is still the one of the response
C22_Witness ==
    /\ ctx_state = "READY"
    /\ _default_sink = Bytes("a")
    /\ srv.default_sink_name = Bytes("b")
    /\ last.op = "toggle_main_mute"
    /\ err = "none"
    /\ Len(_pa_sinks) > 0

====
